---- MODULE Spec2Model ----
(***************************************************************************)
(* NuGateway: the alarm engine (alarm_system.py), the relay automation     *)
(* policy (relay_control.py) and the polling pipeline with its read cache  *)
(* (modbus_reader.py), as state machines.                                  *)
(*                                                                         *)
(* Numbers.  Measurements that the pipeline rounds to two decimals         *)
(* (temperature, humidity, co2, pm2_5) and the thresholds they are         *)
(* compared with are integers in hundredths of the unit: 35.0 is 3500,     *)
(* 24.9 is 2490.  battery_soc is a raw register word and is not scaled.    *)
(*                                                                         *)
(* Optional values.  A dict is a function whose DOMAIN is the set of keys  *)
(* present.  An optional argument (sensor: str = None) is a sequence of    *)
(* length 0 (None) or 1.                                                   *)
(***************************************************************************)
EXTENDS Integers, Sequences, FiniteSets, TLC

VARIABLES
    config,          \* ConfigManager.config, the fields the alarm engine reads
    active_alarms,   \* AlarmSystem.active_alarms
    alarm_history,   \* AlarmSystem.alarm_history
    now,             \* the clock datetime.now() reads
    inserted,        \* history variable: every alarm ever given to _add_alarm
    relays,          \* RelayController.relays: the names whose device exists
    state,           \* RelayController.state
    cache,           \* sensor_cache.cache
    timestamps,      \* sensor_cache.timestamps
    sensor_file,     \* the contents of sensors.json, None before the first save
    sensor_log,      \* the entries appended to sensor_data.log
    mqtt_connected,  \* MQTTClient.connected
    published,       \* the messages handed to the MQTT client, oldest first
    reader,          \* the position of the polling loop and its bus client
    outputs,         \* the value of each relay's OutputDevice
    calls,           \* the set_relay call each dashboard thread is in
    app_alarms,      \* active_alarms of the AlarmSystem that app.py creates
    supervisor,      \* run_reader of update_loop.py and the reader it launched
    last             \* history variable: the last call, its arguments and result

vars == <<config, active_alarms, alarm_history, now, inserted, relays, state,
          cache, timestamps, sensor_file, sensor_log, mqtt_connected, published,
          reader, outputs, calls, app_alarms, supervisor, last>>

alarmVars == <<config, active_alarms, alarm_history, now, inserted>>
relayVars == <<relays, state>>
cacheVars == <<cache, timestamps>>
pollVars == <<cache, timestamps, sensor_file, sensor_log, mqtt_connected, published>>
procVars == <<reader, outputs, calls, app_alarms, supervisor>>

(***************************************************************************)
(* Bounds of the model.                                                    *)
(***************************************************************************)
MaxTime == 2        \* check_alarms calls explored under Spec
MaxHistTime == 50   \* check_alarms calls explored under SpecHistory
MaxClock == 6       \* seconds of clock explored under SpecCache
MaxPollClock == 5   \* polling cycles start before this clock reading
MaxCycles == 2      \* polling cycles followed read by read under SpecLoop
MaxPartialTime == 1 \* check_alarms calls explored under SpecPartial
MaxLaunches == 2    \* readers launched under SpecSupervisor

(***************************************************************************)
(* dict helpers                                                            *)
(***************************************************************************)
EmptyDict == [k \in {} |-> 0]

\* dict.get(key, default)
Get(d, k, default) == IF k \in DOMAIN d THEN d[k] ELSE default

Has(d, k) == k \in DOMAIN d

\* the dicts with key k absent or bound to a value of V
OptField(k, V) == {EmptyDict} \cup {(k :> v) : v \in V}

None == <<>>
Some(x) == <<x>>

Range(s) == {s[i] : i \in 1..Len(s)}

(***************************************************************************)
(* config.py                                                               *)
(***************************************************************************)
temp_alarm_high_default == 3500
temp_alarm_low_default == 500
humidity_alarm_high_default == 8500
co2_alarm_high_default == 200000
battery_soc_alarm_low_default == 20
interval_default == 10

\* update_loop.py: INTERVAL_SECONDS, the fallback of the settings' interval
INTERVAL_SECONDS == 10

\* GatewayConfig(): the dataclass defaults of the settings the model reads
GatewayConfig ==
    [interval |-> interval_default,
     mqtt_enabled |-> FALSE,
     mqtt_topic |-> "nugateway/sensors",
     enable_data_logging |-> TRUE,
     alarm_enabled |-> TRUE,
     temp_alarm_high |-> temp_alarm_high_default,
     temp_alarm_low |-> temp_alarm_low_default,
     humidity_alarm_high |-> humidity_alarm_high_default,
     co2_alarm_high |-> co2_alarm_high_default,
     battery_soc_alarm_low |-> battery_soc_alarm_low_default]

\* ConfigManager.get: getattr(self.config, key, default)
ConfigGet(cfg, key, default) == Get(cfg, key, default)

\* ConfigManager.set: only attributes the dataclass has are assigned
ConfigSet(cfg, key, value) ==
    IF key \in DOMAIN cfg THEN [cfg EXCEPT ![key] = value] ELSE cfg

(***************************************************************************)
(* alarm_system.py                                                         *)
(***************************************************************************)
INFO == "info"
WARNING == "warning"
CRITICAL == "critical"

max_history == 100

pm25_high == 5500

Alarm(level, message, timestamp, sensor, value, threshold) ==
    [level |-> level, message |-> message, timestamp |-> timestamp,
     sensor |-> sensor, value |-> value, threshold |-> threshold]

\* lines 39-65: the temperature rules, an if / elif pair
temperature_alarms(cfg, data, t) ==
    IF Has(data, "temperature")
    THEN LET temp == data["temperature"]
             temp_high == ConfigGet(cfg, "temp_alarm_high", temp_alarm_high_default)
             temp_low == ConfigGet(cfg, "temp_alarm_low", temp_alarm_low_default)
         IN  IF temp > temp_high
             THEN <<Alarm(WARNING, <<"Yuksek sicaklik", temp, temp_high>>, t,
                          "temperature", temp, temp_high)>>
             ELSE IF temp < temp_low
             THEN <<Alarm(WARNING, <<"Dusuk sicaklik", temp, temp_low>>, t,
                          "temperature", temp, temp_low)>>
             ELSE <<>>
    ELSE <<>>

\* lines 67-80 with a missing humidity read as 100 per cent
humidity_alarms_defaulted(cfg, data, t) ==
    LET humidity == Get(data, "humidity", 10000)
        hum_high == ConfigGet(cfg, "humidity_alarm_high", humidity_alarm_high_default)
    IN  IF humidity > hum_high
        THEN <<Alarm(WARNING, <<"Yuksek nem", humidity, hum_high>>, t,
                     "humidity", humidity, hum_high)>>
        ELSE <<>>

\* lines 67-80
humidity_alarms(cfg, data, t) ==
    IF Has(data, "humidity")
    THEN LET humidity == data["humidity"]
             hum_high == ConfigGet(cfg, "humidity_alarm_high", humidity_alarm_high_default)
         IN  IF humidity > hum_high
             THEN <<Alarm(WARNING, <<"Yuksek nem", humidity, hum_high>>, t,
                          "humidity", humidity, hum_high)>>
             ELSE <<>>
    ELSE <<>>

\* lines 82-95
co2_alarms(cfg, data, t) ==
    IF Has(data, "co2")
    THEN LET co2 == data["co2"]
             co2_high == ConfigGet(cfg, "co2_alarm_high", co2_alarm_high_default)
         IN  IF co2 > co2_high
             THEN <<Alarm(CRITICAL, <<"Yuksek CO2 seviyesi", co2, co2_high>>, t,
                          "co2", co2, co2_high)>>
             ELSE <<>>
    ELSE <<>>

\* lines 97-110
battery_soc_alarms(cfg, data, t) ==
    IF Has(data, "battery_soc")
    THEN LET soc == data["battery_soc"]
             soc_low == ConfigGet(cfg, "battery_soc_alarm_low", battery_soc_alarm_low_default)
         IN  IF soc < soc_low
             THEN <<Alarm(CRITICAL, <<"Dusuk batarya", soc, soc_low>>, t,
                          "battery_soc", soc, soc_low)>>
             ELSE <<>>
    ELSE <<>>

\* lines 112-125
pm2_5_alarms(data, t) ==
    IF Has(data, "pm2_5")
    THEN LET pm25 == data["pm2_5"]
         IN  IF pm25 > pm25_high
             THEN <<Alarm(WARNING, <<"Yuksek partikul seviyesi (PM2.5)", pm25>>, t,
                          "pm2_5", pm25, pm25_high)>>
             ELSE <<>>
    ELSE <<>>

\* lines 34-125 without the alarm_enabled test of lines 36-37
new_alarms_always(cfg, data, t) ==
    temperature_alarms(cfg, data, t) \o humidity_alarms(cfg, data, t)
    \o co2_alarms(cfg, data, t) \o battery_soc_alarms(cfg, data, t)
    \o pm2_5_alarms(data, t)

\* lines 34-125 with the CO2 rule evaluated before the temperature rules
new_alarms_co2_first(cfg, data, t) ==
    IF ~ConfigGet(cfg, "alarm_enabled", TRUE)
    THEN <<>>
    ELSE co2_alarms(cfg, data, t) \o temperature_alarms(cfg, data, t)
         \o humidity_alarms(cfg, data, t) \o battery_soc_alarms(cfg, data, t)
         \o pm2_5_alarms(data, t)

\* lines 34-125: the list new_alarms that check_alarms builds at time t
new_alarms(cfg, data, t) ==
    IF ~ConfigGet(cfg, "alarm_enabled", TRUE)
    THEN <<>>
    ELSE temperature_alarms(cfg, data, t) \o humidity_alarms(cfg, data, t)
         \o co2_alarms(cfg, data, t) \o battery_soc_alarms(cfg, data, t)
         \o pm2_5_alarms(data, t)

\* alarm_history.pop(0)
PopFirst(s) == Tail(s)

\* alarm_history.pop(), which drops the newest entry
PopLast(s) == SubSeq(s, 1, Len(s) - 1)

\* lines 143-146 without the eviction
append_history_unbounded(history, alarm) == Append(history, alarm)

\* lines 143-146 evicting from the wrong end
append_history_lifo(history, alarm) ==
    LET h == Append(history, alarm)
    IN  IF Len(h) > max_history THEN PopLast(h) ELSE h

\* lines 143-146: append, then drop the oldest entry when over max_history
append_history(history, alarm) ==
    LET h == Append(history, alarm)
    IN  IF Len(h) > max_history THEN PopFirst(h) ELSE h

\* lines 137-141 without the lookup of an existing alarm
append_active_always(active, alarm) == Append(active, alarm)

\* lines 137-141 replacing the existing alarm by the new one
append_active_refresh(active, alarm) ==
    IF \E i \in 1..Len(active) :
           active[i].sensor = alarm.sensor /\ active[i].level = alarm.level
    THEN [i \in 1..Len(active) |->
             IF active[i].sensor = alarm.sensor /\ active[i].level = alarm.level
             THEN alarm ELSE active[i]]
    ELSE Append(active, alarm)

\* lines 137-141 with the threshold added to the key of the lookup
append_active_by_threshold(active, alarm) ==
    IF \E i \in 1..Len(active) :
           /\ active[i].sensor = alarm.sensor /\ active[i].level = alarm.level
           /\ active[i].threshold = alarm.threshold
    THEN active
    ELSE Append(active, alarm)

\* lines 137-141: append unless an alarm with this (sensor, level) is active
append_active(active, alarm) ==
    IF \E i \in 1..Len(active) :
           active[i].sensor = alarm.sensor /\ active[i].level = alarm.level
    THEN active
    ELSE Append(active, alarm)

\* AlarmSystem._add_alarm on the pair st = [active, history]
add_alarm(st, alarm) ==
    [active |-> append_active(st.active, alarm),
     history |-> append_history(st.history, alarm)]

\* lines 128-130: for alarm in new_alarms: self._add_alarm(alarm)
RECURSIVE add_all(_, _)
add_all(st, alarms) ==
    IF alarms = <<>> THEN st
    ELSE add_all(add_alarm(st, Head(alarms)), Tail(alarms))

\* check_alarms that first drops the active alarms whose rule did not fire in
\* this call
check_alarms_resetting(cfg, active, history, data, t) ==
    LET new == new_alarms(cfg, data, t)
        kept == SelectSeq(active,
                    LAMBDA a : \E i \in 1..Len(new) : new[i].sensor = a.sensor)
        st == add_all([active |-> kept, history |-> history], new)
    IN  [ret |-> new, active |-> st.active, history |-> st.history]

\* AlarmSystem.check_alarms at time t: the returned list and the new lists
check_alarms(cfg, active, history, data, t) ==
    LET new == new_alarms(cfg, data, t)
        st == add_all([active |-> active, history |-> history], new)
    IN  [ret |-> new, active |-> st.active, history |-> st.history]

\* "if sensor:" of clear_alarms: None and the empty string are falsy
Truthy(sensor) == sensor # None /\ sensor[1] # ""

\* clear_alarms that also drops the alarms of the other sensors
clear_alarms_all(active, sensor) == <<>>

\* AlarmSystem.clear_alarms
clear_alarms(active, sensor) ==
    IF Truthy(sensor)
    THEN SelectSeq(active, LAMBDA a : a.sensor # sensor[1])
    ELSE <<>>

\* AlarmSystem.get_active_alarms: the active alarms as dicts
get_active_alarms(active) ==
    [i \in 1..Len(active) |->
        [level |-> active[i].level, message |-> active[i].message,
         timestamp |-> active[i].timestamp, sensor |-> active[i].sensor,
         value |-> active[i].value, threshold |-> active[i].threshold]]

(***************************************************************************)
(* relay_control.py                                                        *)
(***************************************************************************)
RELAY_PINS ==
    [led_light |-> 5, display |-> 6, load1 |-> 13, load2 |-> 19,
     load3 |-> 26, load4 |-> 16, fan |-> 20, heater |-> 21]

RelayNames == DOMAIN RELAY_PINS

default_temperature == 2000   \* data.get("temperature", 20.0)
fan_on_above == 3000
fan_off_below == 2500
heater_on_below == 1500
heater_off_above == 2000

\* RelayController._initialize_relays: the relays whose device could not be
\* created (initFailed) get neither a device nor a state entry
initialize_relays(initFailed) ==
    [relays |-> RelayNames \ initFailed,
     state |-> [n \in RelayNames \ initFailed |-> FALSE]]

\* set_relay without the try / except of lines 81-88 and without the lookup
\* of lines 77-79: a missing device or a raising setter propagates (exc)
set_relay_unguarded(rc, name, value, raises) ==
    IF name \notin rc.relays \/ raises
    THEN [ret |-> FALSE, exc |-> TRUE, relays |-> rc.relays, state |-> rc.state]
    ELSE [ret |-> TRUE, exc |-> FALSE, relays |-> rc.relays,
          state |-> [n \in DOMAIN rc.state \cup {name} |->
                        IF n = name THEN value ELSE rc.state[n]]]

\* set_relay recording the state before the device is written (lines 82 and
\* 83 exchanged)
set_relay_state_first(rc, name, value, raises) ==
    IF name \notin rc.relays
    THEN [ret |-> FALSE, exc |-> FALSE, relays |-> rc.relays, state |-> rc.state]
    ELSE [ret |-> ~raises, exc |-> FALSE, relays |-> rc.relays,
          state |-> [n \in DOMAIN rc.state \cup {name} |->
                        IF n = name THEN value ELSE rc.state[n]]]

\* RelayController.set_relay on rc = [relays, state]; raises is whether the
\* device's value setter raises; exc is whether the call itself raises
set_relay(rc, name, value, raises) ==
    IF name \notin rc.relays
    THEN [ret |-> FALSE, exc |-> FALSE, relays |-> rc.relays, state |-> rc.state]
    ELSE IF raises
    THEN [ret |-> FALSE, exc |-> FALSE, relays |-> rc.relays, state |-> rc.state]
    ELSE [ret |-> TRUE, exc |-> FALSE, relays |-> rc.relays,
          state |-> [n \in DOMAIN rc.state \cup {name} |->
                        IF n = name THEN value ELSE rc.state[n]]]

\* lines 139-143 writing nothing to the fan when the temperature is absent
fan_writes_known(data) ==
    IF ~Has(data, "temperature") THEN <<>>
    ELSE LET temp == data["temperature"]
         IN  IF temp > fan_on_above THEN << <<"fan", TRUE>> >>
             ELSE IF temp < fan_off_below THEN << <<"fan", FALSE>> >>
             ELSE <<>>

\* lines 139-143 with the comparisons made non-strict
fan_writes_nonstrict(data) ==
    LET temp == Get(data, "temperature", default_temperature)
    IN  IF temp >= fan_on_above THEN << <<"fan", TRUE>> >>
        ELSE IF temp <= fan_off_below THEN << <<"fan", FALSE>> >>
        ELSE <<>>

\* lines 139-143: the fan write of one pass, if any
fan_writes(data) ==
    LET temp == Get(data, "temperature", default_temperature)
    IN  IF temp > fan_on_above THEN << <<"fan", TRUE>> >>
        ELSE IF temp < fan_off_below THEN << <<"fan", FALSE>> >>
        ELSE <<>>

\* lines 146-149 with the comparisons made non-strict
heater_writes_nonstrict(data) ==
    LET temp == Get(data, "temperature", default_temperature)
    IN  IF temp <= heater_on_below THEN << <<"heater", TRUE>> >>
        ELSE IF temp >= heater_off_above THEN << <<"heater", FALSE>> >>
        ELSE <<>>

\* lines 139, 146-149: the heater write of one pass, if any
heater_writes(data) ==
    LET temp == Get(data, "temperature", default_temperature)
    IN  IF temp < heater_on_below THEN << <<"heater", TRUE>> >>
        ELSE IF temp > heater_off_above THEN << <<"heater", FALSE>> >>
        ELSE <<>>

\* lines 126-136 with the loads following bms_low_power_mode uninverted
direct_writes_uninverted(data) ==
    LET is_dark == Get(data, "is_dark", FALSE)
        display_on == Get(data, "display_should_be_on", FALSE)
        low_power == Get(data, "bms_low_power_mode", FALSE)
    IN  << <<"led_light", is_dark>>, <<"display", display_on>>,
           <<"load1", low_power>>, <<"load2", low_power>> >>

\* lines 126-136: the unconditional writes of one pass
direct_writes(data) ==
    LET is_dark == Get(data, "is_dark", FALSE)
        display_on == Get(data, "display_should_be_on", FALSE)
        low_power == Get(data, "bms_low_power_mode", FALSE)
    IN  << <<"led_light", is_dark>>, <<"display", display_on>>,
           <<"load1", ~low_power>>, <<"load2", ~low_power>> >>

\* the set_relay calls of apply_logic, in program order
policy_writes(data) ==
    direct_writes(data) \o fan_writes(data) \o heater_writes(data)

\* the calls run in order; a call that raises ends the pass (raised)
RECURSIVE do_writes(_, _, _)
do_writes(rc, writes, failed) ==
    IF writes = <<>>
    THEN [relays |-> rc.relays, state |-> rc.state, raised |-> FALSE]
    ELSE LET w == Head(writes)
             r == set_relay(rc, w[1], w[2], w[1] \in failed)
         IN  IF r.exc
             THEN [relays |-> r.relays, state |-> r.state, raised |-> TRUE]
             ELSE do_writes([relays |-> r.relays, state |-> r.state],
                            Tail(writes), failed)

\* apply_logic; failed is the set of relays whose device write raises
apply_logic(rc, data, failed) == do_writes(rc, policy_writes(data), failed)

\* manual_control that records the command without switching the relay
manual_control_recorded(rc, name, value, raises) ==
    [set_relay(rc, name, value, raises) EXCEPT !.state = rc.state]

\* manual_control
manual_control(rc, name, value, raises) == set_relay(rc, name, value, raises)

(***************************************************************************)
(* modbus_reader.py: SensorCache and read_sensor_safe                      *)
(*                                                                         *)
(* A response of the bus is a record; its field at is a history field, the *)
(* clock reading at which the bus produced it.                             *)
(***************************************************************************)
ttl == 5   \* SensorCache(ttl_seconds=5)

\* dict with key k deleted
Del(d, k) == [x \in DOMAIN d \ {k} |-> d[x]]

\* SensorCache.get at clock reading t with an inclusive expiry test
cache_get_inclusive(c, key, t) ==
    IF key \in DOMAIN c.cache
    THEN IF t - c.timestamps[key] <= ttl
         THEN [ret |-> Some(c.cache[key]), cache |-> c.cache,
               timestamps |-> c.timestamps]
         ELSE [ret |-> None, cache |-> Del(c.cache, key),
               timestamps |-> Del(c.timestamps, key)]
    ELSE [ret |-> None, cache |-> c.cache, timestamps |-> c.timestamps]

\* SensorCache.get at clock reading t
cache_get(c, key, t) ==
    IF key \in DOMAIN c.cache
    THEN IF t - c.timestamps[key] < ttl
         THEN [ret |-> Some(c.cache[key]), cache |-> c.cache,
               timestamps |-> c.timestamps]
         ELSE [ret |-> None, cache |-> Del(c.cache, key),
               timestamps |-> Del(c.timestamps, key)]
    ELSE [ret |-> None, cache |-> c.cache, timestamps |-> c.timestamps]

\* SensorCache.set at clock reading t
cache_set(c, key, value, t) ==
    [cache |-> (key :> value) @@ c.cache,
     timestamps |-> (key :> t) @@ c.timestamps]

\* cache_key = f"{slave}_{address}_{count}_{register_type}"
cache_key(slave, address, count, register_type) ==
    <<slave, address, count, register_type>>

\* what the bus does with one read request at clock reading t
Ok(registers, t) == [kind |-> "ok", registers |-> registers, at |-> t]
ErrorResponse == [kind |-> "error"]
Raises == [kind |-> "raise"]

isError(result) == result.kind = "error"

\* read_sensor_safe that goes to the bus without consulting the cache
read_sensor_safe_uncached(c, key, bus, t) ==
    IF bus.kind = "raise"
    THEN [ret |-> None, cache |-> c.cache, timestamps |-> c.timestamps,
          reads |-> <<key>>]
    ELSE IF ~isError(bus)
         THEN LET s == cache_set(c, key, bus, t)
              IN  [ret |-> Some(bus), cache |-> s.cache,
                   timestamps |-> s.timestamps, reads |-> <<key>>]
         ELSE [ret |-> None, cache |-> c.cache, timestamps |-> c.timestamps,
               reads |-> <<key>>]

\* read_sensor_safe storing whatever the client returns, error responses too
read_sensor_safe_caching_errors(c, key, bus, t) ==
    LET g == cache_get(c, key, t)
    IN  IF g.ret # None
        THEN [ret |-> g.ret, cache |-> g.cache, timestamps |-> g.timestamps,
              reads |-> <<>>]
        ELSE IF bus.kind = "raise"
             THEN [ret |-> None, cache |-> g.cache, timestamps |-> g.timestamps,
                   reads |-> <<key>>]
             ELSE LET s == cache_set(g, key, bus, t)
                  IN  [ret |-> IF isError(bus) THEN None ELSE Some(bus),
                       cache |-> s.cache, timestamps |-> s.timestamps,
                       reads |-> <<key>>]

\* read_sensor_safe(client, address, count, slave, register_type) at clock
\* reading t; bus is what the client does if it is asked; reads lists the
\* requests that went to the bus
read_sensor_safe(c, key, bus, t) ==
    LET g == cache_get(c, key, t)
    IN  IF g.ret # None
        THEN [ret |-> g.ret, cache |-> g.cache, timestamps |-> g.timestamps,
              reads |-> <<>>]
        ELSE IF bus.kind = "raise"
             THEN [ret |-> None, cache |-> g.cache, timestamps |-> g.timestamps,
                   reads |-> <<key>>]
             ELSE IF ~isError(bus)
                  THEN LET s == cache_set(g, key, bus, t)
                       IN  [ret |-> Some(bus), cache |-> s.cache,
                            timestamps |-> s.timestamps, reads |-> <<key>>]
                  ELSE [ret |-> None, cache |-> g.cache,
                        timestamps |-> g.timestamps, reads |-> <<key>>]

(***************************************************************************)
(* modbus_reader.py and modbus_simulator.py: decoding                      *)
(*                                                                         *)
(* A float is the integer number of 1/256 it amounts to.  Every multiple   *)
(* of 1/256 of magnitude below 65536 is a float32, and the register words  *)
(* the model puts on the bus encode such values, so that encoding and      *)
(* decoding are exact.  round(x, 2) takes a float to hundredths.           *)
(***************************************************************************)
FloatUnit == 256

Abs(x) == IF x < 0 THEN 0 - x ELSE x

\* the bits of the float32 nearest to x (x in units of 1/FloatUnit; every such
\* x below 2^15 is a float32), as its sign, exponent and fraction fields
float_bits(x) ==
    IF x = 0 THEN [sign |-> 0, exponent |-> 0, fraction |-> 0]
    ELSE LET a == Abs(x)
             k == CHOOSE j \in 0..23 : a * 2^j >= 2^23 /\ a * 2^j < 2^24
         IN  [sign |-> IF x < 0 THEN 1 ELSE 0, exponent |-> 142 - k,
              fraction |-> a * 2^k - 2^23]

\* struct.pack('>f', value): the four bytes of the float, most significant
\* first
pack_f(b) ==
    <<b.sign * 128 + b.exponent \div 2,
      (b.exponent % 2) * 128 + b.fraction \div 65536,
      (b.fraction \div 256) % 256,
      b.fraction % 256>>

\* struct.unpack('>HH', bytes): two big-endian 16-bit words
unpack_HH(bytes) == <<bytes[1] * 256 + bytes[2], bytes[3] * 256 + bytes[4]>>

\* float_to_regs(value): the two big-endian words of the float32 of x
float_to_regs(x) == unpack_HH(pack_f(float_bits(x)))

\* the combined word with the two registers in the other order
to_bytes_swapped(registers) ==
    IF Len(registers) < 2 THEN None
    ELSE IF registers[2] \notin 0..65535 \/ registers[1] < 0 THEN None
    ELSE Some(<<registers[2] \div 256, registers[2] % 256,
                registers[1] \div 256, registers[1] % 256>>)

\* ((registers[0] << 16) | registers[1]).to_bytes(4, byteorder='big'): the
\* four bytes of the combined word, None if the expression raises (fewer than
\* two registers, or a combined word that is negative or wider than 32 bits);
\* registers[1] is at most 65535, as the bus delivers it
to_bytes(registers) ==
    IF Len(registers) < 2 THEN None
    ELSE IF registers[1] \notin 0..65535 \/ registers[2] < 0 THEN None
    ELSE Some(<<registers[1] \div 256, registers[1] % 256,
                registers[2] \div 256, registers[2] % 256>>)

\* struct.unpack('>f', bytes): the fields of the float with these bytes
unpack_f(bytes) ==
    [sign |-> bytes[1] \div 128,
     exponent |-> (bytes[1] % 128) * 2 + bytes[2] \div 128,
     fraction |-> (bytes[2] % 128) * 65536 + bytes[3] * 256 + bytes[4]]

\* the value of a float32 in units of 1/FloatUnit (subnormals are below the
\* unit)
float_value(b) ==
    LET sig == 2^23 + b.fraction
        mag == IF b.exponent = 0 THEN 0
               ELSE IF b.exponent >= 142 THEN sig * 2^(b.exponent - 142)
               ELSE IF 142 - b.exponent > 24 THEN 0
               ELSE sig \div 2^(142 - b.exponent)
    IN  IF b.sign = 1 THEN 0 - mag ELSE mag

\* read_float32_ieee754(registers): the float32 whose bits are
\* (registers[0] << 16) | registers[1]; 0.0 if the conversion raises
read_float32_ieee754(registers) ==
    IF to_bytes(registers) = None THEN 0
    ELSE float_value(unpack_f(to_bytes(registers)[1]))

\* n / d rounded to the nearest integer, ties to the even one
round_half_even(n, d) ==
    LET q == n \div d
        r == n % d
    IN  IF 2 * r > d \/ (2 * r = d /\ q % 2 = 1) THEN q + 1 ELSE q

\* round(x, 2) of a float, in hundredths
round2(x) == round_half_even(x * 100, FloatUnit)

\* classify_air_quality with the percentage of every level one step late
classify_air_quality_shifted(pm2_5, co2) ==
    LET s1 == IF pm2_5 > 55 * FloatUnit THEN 2
              ELSE IF pm2_5 > 35 * FloatUnit THEN 1 ELSE 0
        s2 == IF co2 > 2000 * FloatUnit THEN 2
              ELSE IF co2 > 1200 * FloatUnit THEN 1 ELSE 0
        score == s1 + s2
        levels == (0 :> <<"Mukemmel", 0>>) @@ (1 :> <<"Orta", 0>>)
                  @@ (2 :> <<"Dusuk kalite", 25>>) @@ (3 :> <<"Kotu", 50>>)
                  @@ (4 :> <<"Sagliksiz", 75>>)
    IN  Get(levels, score, <<"Bilinmiyor", 0>>)

\* classify_air_quality(pm2_5, co2): (text, percentage)
classify_air_quality(pm2_5, co2) ==
    LET s1 == IF pm2_5 > 55 * FloatUnit THEN 2
              ELSE IF pm2_5 > 35 * FloatUnit THEN 1 ELSE 0
        s2 == IF co2 > 2000 * FloatUnit THEN 2
              ELSE IF co2 > 1200 * FloatUnit THEN 1 ELSE 0
        score == s1 + s2
        levels == (0 :> <<"Mukemmel", 0>>) @@ (1 :> <<"Orta", 25>>)
                  @@ (2 :> <<"Dusuk kalite", 50>>) @@ (3 :> <<"Kotu", 75>>)
                  @@ (4 :> <<"Sagliksiz", 100>>)
    IN  Get(levels, score, <<"Bilinmiyor", 0>>)

\* estimate_weather with the temperature test of the first rule made inclusive
estimate_weather_inclusive(temp, humidity, lux) ==
    IF temp >= 25 * FloatUnit /\ humidity < 50 * FloatUnit /\ lux > 20000
    THEN "Gunesli ve sicak"
    ELSE IF temp < 10 * FloatUnit /\ humidity > 70 * FloatUnit /\ lux < 10000
    THEN "Soguk ve yagisli"
    ELSE IF /\ 10 * FloatUnit <= temp /\ temp <= 20 * FloatUnit
            /\ 50 * FloatUnit <= humidity /\ humidity <= 70 * FloatUnit
            /\ 10000 <= lux /\ lux <= 20000
    THEN "Serin ve parcali bulutlu"
    ELSE IF /\ 15 * FloatUnit <= temp /\ temp <= 25 * FloatUnit
            /\ humidity > 70 * FloatUnit /\ lux < 15000
    THEN "Ilik ve nemli"
    ELSE "Kararsiz hava kosullari"

\* estimate_weather(temp, humidity, lux)
estimate_weather(temp, humidity, lux) ==
    IF temp > 25 * FloatUnit /\ humidity < 50 * FloatUnit /\ lux > 20000
    THEN "Gunesli ve sicak"
    ELSE IF temp < 10 * FloatUnit /\ humidity > 70 * FloatUnit /\ lux < 10000
    THEN "Soguk ve yagisli"
    ELSE IF /\ 10 * FloatUnit <= temp /\ temp <= 20 * FloatUnit
            /\ 50 * FloatUnit <= humidity /\ humidity <= 70 * FloatUnit
            /\ 10000 <= lux /\ lux <= 20000
    THEN "Serin ve parcali bulutlu"
    ELSE IF /\ 15 * FloatUnit <= temp /\ temp <= 25 * FloatUnit
            /\ humidity > 70 * FloatUnit /\ lux < 15000
    THEN "Ilik ve nemli"
    ELSE "Kararsiz hava kosullari"

(***************************************************************************)
(* modbus_reader.py: read_sensors                                          *)
(*                                                                         *)
(* A block is named by the variable of read_sensors that receives it.  bus *)
(* tells, for each block, what the client does if it is asked for it.  A   *)
(* response that is not an error carries the number of words asked for,    *)
(* and a response object is true in a condition (if r:).                   *)
(* The polling state st is [cache, timestamps, reads, rets, result]: the   *)
(* cache, the requests sent to the bus so far, what read_sensor_safe       *)
(* returned for each block so far, and the snapshot under construction.    *)
(* Voltages, currents, powers and battery_temp are in hundredths; the      *)
(* words on the bus give powers that are whole hundredths.                 *)
(***************************************************************************)
ReadKey ==
    [r            |-> cache_key(1, 0, 2, "holding"),
     co2          |-> cache_key(123, 8, 2, "holding"),
     temp         |-> cache_key(123, 14, 2, "holding"),
     hum          |-> cache_key(123, 16, 2, "holding"),
     pm25         |-> cache_key(123, 10, 2, "holding"),
     pm10         |-> cache_key(123, 12, 2, "holding"),
     illumination |-> cache_key(123, 18, 2, "holding"),
     pv_v         |-> cache_key(3, 12288, 1, "input"),
     pv_c         |-> cache_key(3, 12289, 1, "input"),
     pir          |-> cache_key(2, 6, 1, "holding"),
     bv           |-> cache_key(4, 12292, 1, "input"),
     bc           |-> cache_key(4, 12293, 1, "input"),
     soc          |-> cache_key(4, 12320, 1, "input"),
     soh          |-> cache_key(4, 12321, 1, "input"),
     bt           |-> cache_key(4, 12322, 1, "input"),
     dt           |-> cache_key(4, 12323, 1, "input"),
     ct           |-> cache_key(4, 12324, 1, "input")]

EnvReads == <<"co2", "temp", "hum", "pm25", "pm10", "illumination">>
MpptReads == <<"pv_v", "pv_c">>
BmsReads == <<"bv", "bc", "soc", "soh", "bt", "dt", "ct">>

\* one read_sensor_safe call of read_sensors, for the block n
read_one(st, n, bus, t) ==
    LET r == read_sensor_safe([cache |-> st.cache, timestamps |-> st.timestamps],
                              ReadKey[n], bus[n], t)
    IN  [cache |-> r.cache, timestamps |-> r.timestamps,
         reads |-> st.reads \o r.reads, rets |-> (n :> r.ret) @@ st.rets,
         result |-> st.result]

\* the read_sensor_safe calls of one step, in order
RECURSIVE read_each(_, _, _, _)
read_each(st, names, bus, t) ==
    IF names = <<>> THEN st
    ELSE CHOOSE after \in {read_each(s, Tail(names), bus, t) :
                             s \in {read_one(st, Head(names), bus, t)}} : TRUE

\* result[key] = value
SetItem(st, key, value) == [st EXCEPT !.result = (key :> value) @@ @]

\* the only register of a one-word block
Word(ret) == ret[1].registers[1]

\* lines 153-157: the LDR fields, once the block is read
ldr_fields(st) ==
    LET r == st.rets["r"]
    IN  IF r # None
        THEN LET lux == r[1].registers[1] * 65536 + r[1].registers[2]
             IN  SetItem(SetItem(st, "ldr_lux", lux), "is_dark", lux < 20000)
        ELSE st

\* lines 170-194: the environmental fields, once the six blocks are read
env_fields(st) ==
    IF \A i \in 1..Len(EnvReads) : st.rets[EnvReads[i]] # None
    THEN LET co2_val == read_float32_ieee754(st.rets["co2"][1].registers)
             temp_val == read_float32_ieee754(st.rets["temp"][1].registers)
             hum_val == read_float32_ieee754(st.rets["hum"][1].registers)
             pm25_val == read_float32_ieee754(st.rets["pm25"][1].registers)
             pm10_val == read_float32_ieee754(st.rets["pm10"][1].registers)
             illum_val ==
                 read_float32_ieee754(st.rets["illumination"][1].registers)
             air == classify_air_quality(pm25_val, co2_val)
             lux == Get(st.result, "ldr_lux", 0)
         IN  [st EXCEPT !.result =
                 ("weather_status" :> estimate_weather(temp_val, hum_val, lux))
                 @@ ("air_quality_score" :> air[2])
                 @@ ("air_quality" :> air[1])
                 @@ ("illumination" :> round2(illum_val))
                 @@ ("pm10" :> round2(pm10_val))
                 @@ ("pm2_5" :> round2(pm25_val))
                 @@ ("humidity" :> round2(hum_val))
                 @@ ("temperature" :> round2(temp_val))
                 @@ ("co2" :> round2(co2_val))
                 @@ @]
    ELSE st

\* lines 203-210: the MPPT fields, once the two blocks are read
mppt_fields(st) ==
    IF st.rets["pv_v"] # None /\ st.rets["pv_c"] # None
    THEN LET volt == Word(st.rets["pv_v"])
             curr == Word(st.rets["pv_c"])
         IN  [st EXCEPT !.result =
                 ("mppt_status" :> IF curr > 10 THEN "Charging" ELSE "Idle")
                 @@ ("pv_power" :> round_half_even(volt * curr, 100))
                 @@ ("pv_current" :> curr)
                 @@ ("pv_voltage" :> volt)
                 @@ @]
    ELSE st

\* lines 217-221: the PIR fields, once the block is read
pir_fields(st) ==
    IF st.rets["pir"] # None
    THEN LET pir_value == Word(st.rets["pir"])
         IN  SetItem(SetItem(st, "motion_detected", pir_value = 1),
                     "display_should_be_on", pir_value = 1)
    ELSE st

\* lines 235-240: voltage, current and power of the battery
battery_power_fields(st) ==
    IF st.rets["bv"] # None /\ st.rets["bc"] # None
    THEN LET voltage == Word(st.rets["bv"])
             current == Word(st.rets["bc"])
         IN  ("battery_power" :> round_half_even(voltage * current, 100))
             @@ ("battery_current" :> current)
             @@ ("battery_voltage" :> voltage)
    ELSE EmptyDict

\* lines 242-251: the battery fields that are emitted one by one
battery_single_fields(st) ==
    (IF st.rets["ct"] # None
     THEN ("charge_time" :> Word(st.rets["ct"])) ELSE EmptyDict)
    @@ (IF st.rets["dt"] # None
        THEN ("discharge_time" :> Word(st.rets["dt"])) ELSE EmptyDict)
    @@ (IF st.rets["bt"] # None
        THEN ("battery_temp" :> Word(st.rets["bt"]) * 10) ELSE EmptyDict)
    @@ (IF st.rets["soh"] # None
        THEN ("battery_soh" :> Word(st.rets["soh"])) ELSE EmptyDict)
    @@ (IF st.rets["soc"] # None
        THEN ("battery_soc" :> Word(st.rets["soc"])) ELSE EmptyDict)

\* lines 235-253: the BMS fields, once the seven blocks are read
bms_fields(st) ==
    LET result == battery_single_fields(st) @@ battery_power_fields(st)
                  @@ st.result
    IN  [st EXCEPT !.result =
            ("bms_low_power_mode" :> (Get(result, "battery_soc", 100) < 30))
            @@ result]

\* one device step: its reads, then its fields
step(st0, device, bus, t) ==
    CHOOSE after \in
        {CASE device = "ldr" -> ldr_fields(st)
           [] device = "env" -> env_fields(st)
           [] device = "mppt" -> mppt_fields(st)
           [] device = "pir" -> pir_fields(st)
           [] device = "bms" -> bms_fields(st) :
         st \in {read_each(st0,
                           CASE device = "ldr" -> <<"r">>
                             [] device = "env" -> EnvReads
                             [] device = "mppt" -> MpptReads
                             [] device = "pir" -> <<"pir">>
                             [] device = "bms" -> BmsReads,
                           bus, t)}} : TRUE

\* the device steps in program order
Devices == <<"ldr", "env", "mppt", "pir", "bms">>

\* the steps of devices run one after the other, whatever their reads return
RECURSIVE run_steps(_, _, _, _)
run_steps(st, devices, bus, t) ==
    IF devices = <<>> THEN st
    ELSE CHOOSE after \in {run_steps(s, Tail(devices), bus, t) :
                             s \in {step(st, Head(devices), bus, t)}} : TRUE

\* the steps of devices run until one of them misses a block
RECURSIVE run_steps_aborting(_, _, _, _)
run_steps_aborting(st, devices, bus, t) ==
    IF devices = <<>> \/ \E n \in DOMAIN st.rets : st.rets[n] = None THEN st
    ELSE CHOOSE after \in {run_steps_aborting(s, Tail(devices), bus, t) :
                             s \in {step(st, Head(devices), bus, t)}} : TRUE

\* the polling state read_sensors starts from
start_poll(c) ==
    [cache |-> c.cache, timestamps |-> c.timestamps, reads |-> <<>>,
     rets |-> EmptyDict, result |-> EmptyDict]

\* read_sensors in which a step that misses one of its blocks ends the polling
read_sensors_aborting(c, connects, bus, t) ==
    IF ~connects THEN start_poll(c)
    ELSE run_steps_aborting(start_poll(c), Devices, bus, t)

\* read_sensors that polls the devices whether or not the client connected
read_sensors_unconnected(c, connects, bus, t) ==
    run_steps(start_poll(c), Devices, bus, t)

\* read_sensors up to client.close(): the five steps, or nothing if the
\* client does not connect
read_sensors(c, connects, bus, t) ==
    IF ~connects THEN start_poll(c)
    ELSE run_steps(start_poll(c), Devices, bus, t)

(***************************************************************************)
(* Inputs                                                                  *)
(***************************************************************************)
\* snapshots given to check_alarms under Spec
S_empty == EmptyDict
S_high == ("temperature" :> 3600)
S_low == ("temperature" :> 400)
S_co2 == ("temperature" :> 2200) @@ ("co2" :> 200100)
S_all == ("temperature" :> 3600) @@ ("humidity" :> 8600) @@ ("co2" :> 200100)
         @@ ("battery_soc" :> 19) @@ ("pm2_5" :> 5600)
S_edge == ("temperature" :> 3500) @@ ("humidity" :> 8500) @@ ("co2" :> 200000)
          @@ ("battery_soc" :> 20) @@ ("pm2_5" :> 5500)
S_edge_low == ("temperature" :> 500) @@ ("battery_soc" :> 19) @@ ("pm2_5" :> 5501)

Snapshots == {S_empty, S_high, S_low, S_co2, S_all, S_edge, S_edge_low}

\* the snapshot of a breach that persists, under SpecHistory
PersistentBreach ==
    ("temperature" :> 3600) @@ ("co2" :> 200100) @@ ("battery_soc" :> 19)

SensorArgs ==
    {None, Some(""), Some("temperature"), Some("co2"), Some("illumination")}

\* settings the dashboard may store
ConfigValues ==
    [alarm_enabled |-> BOOLEAN,
     temp_alarm_low |-> {temp_alarm_low_default, 4000}]

\* snapshots given to apply_logic under SpecRelay
Temperatures == {1499, 1500, 2000, 2001, 2490, 2500, 2700, 3000, 3100}

RelaySnapshots ==
    {a @@ b @@ c @@ d :
        a \in OptField("is_dark", BOOLEAN),
        b \in OptField("display_should_be_on", BOOLEAN),
        c \in OptField("bms_low_power_mode", BOOLEAN),
        d \in OptField("temperature", Temperatures)}

\* relay names of the dashboard's commands under SpecRelay; "pump" is no relay
ManualNames == {"led_light", "load3", "fan", "heater", "pump"}

\* snapshots given to apply_logic under SpecRelayFail
FailSnapshots ==
    {a @@ d :
        a \in {EmptyDict,
               ("is_dark" :> TRUE) @@ ("display_should_be_on" :> TRUE)
                   @@ ("bms_low_power_mode" :> TRUE),
               ("is_dark" :> FALSE) @@ ("display_should_be_on" :> TRUE)
                   @@ ("bms_low_power_mode" :> FALSE)},
        d \in OptField("temperature", {1499, 2001, 3100})}

\* no relay, or one relay, fails (to initialise, or in one pass)
FailureSets == {{}} \cup {{n} : n \in RelayNames}

\* the LDR block and the PIR word of the pipeline
CacheKeys == {cache_key(1, 0, 2, "holding"), cache_key(2, 6, 1, "holding")}

\* register blocks a bus read may deliver
CacheBlocks == {<<0, 15000>>, <<0, 25000>>}

\* PM2.5 readings around 35 and 55, as floats: 0, 10, 35 -+ 1/256, 40,
\* 55 -+ 1/256, 60
PM25Values == {0, 2560, 8959, 8960, 8961, 10240, 14079, 14080, 14081, 15360}

\* CO2 readings around 1200 and 2000, as floats: 0, 500, 1200 -+ 1/256, 1300,
\* 2000 -+ 1/256, 2100
CO2Values ==
    {0, 128000, 307199, 307200, 307201, 332800, 511999, 512000, 512001, 537600}

\* readings of the environmental sensor, as floats
EnvClean ==
    [co2 |-> 500 * FloatUnit, temp |-> 22 * FloatUnit, hum |-> 45 * FloatUnit,
     pm25 |-> 10 * FloatUnit, pm10 |-> 20 * FloatUnit,
     illumination |-> 30000 * FloatUnit]
EnvHot ==
    [co2 |-> 1300 * FloatUnit, temp |-> 31 * FloatUnit, hum |-> 40 * FloatUnit,
     pm25 |-> 40 * FloatUnit, pm10 |-> 60 * FloatUnit,
     illumination |-> 30000 * FloatUnit]
EnvBad ==
    [co2 |-> 2100 * FloatUnit, temp |-> 36 * FloatUnit + 1,
     hum |-> 86 * FloatUnit, pm25 |-> 60 * FloatUnit, pm10 |-> 150 * FloatUnit,
     illumination |-> 1000 * FloatUnit]
EnvCold ==
    [co2 |-> 1200 * FloatUnit + 1, temp |-> 4 * FloatUnit + 32,
     hum |-> 75 * FloatUnit, pm25 |-> 55 * FloatUnit + 1,
     pm10 |-> 20 * FloatUnit, illumination |-> 5000 * FloatUnit]
EnvProfiles == {EnvClean, EnvHot, EnvBad, EnvCold}

\* the words of the other devices: LDR lux, PV voltage and current, PIR,
\* battery voltage, current, SOC, SOH, temperature, discharge and charge time
DeviceWords ==
    [r |-> <<0, 25000>>, pv_v |-> <<1850>>, pv_c |-> <<320>>, pir |-> <<1>>,
     bv |-> <<1260>>, bc |-> <<150>>, soc |-> <<80>>, soh |-> <<97>>,
     bt |-> <<253>>, dt |-> <<120>>, ct |-> <<45>>]

\* a bus on which every device answers: env gives the environmental readings
\* and words overrides DeviceWords
AllOk(env, words, t) ==
    [n \in DOMAIN ReadKey |->
        IF n \in DOMAIN env THEN Ok(float_to_regs(env[n]), t)
        ELSE IF n \in DOMAIN words THEN Ok(words[n], t)
        ELSE Ok(DeviceWords[n], t)]

\* the bus on which the blocks of F fail as kind does
WithFailures(bus, F, kind) ==
    [n \in DOMAIN bus |-> IF n \in F THEN kind ELSE bus[n]]

DeviceReads ==
    [ldr |-> {"r"}, env |-> Range(EnvReads), mppt |-> Range(MpptReads),
     pir |-> {"pir"}, bms |-> Range(BmsReads)]

\* the subsets of S with at most one element or at most one element missing
FewOrMost(S) ==
    {F \in SUBSET S : Cardinality(F) <= 1 \/ Cardinality(F) >= Cardinality(S) - 1}

\* the buses of one polling cycle at clock reading t: every device answering
\* with varied readings; one, all but one or all environmental blocks
\* failing; the same for the battery blocks; any set of devices failing
\* altogether, by error responses or by exceptions
PollBuses(t) ==
    {AllOk(env, words, t) : env \in EnvProfiles,
         words \in {EmptyDict, ("r" :> <<0, 15000>>),
                    ("pir" :> <<0>>) @@ ("soc" :> <<25>>),
                    ("pv_c" :> <<6>>) @@ ("soc" :> <<15>>),
                    ("pir" :> <<2>>), ("pir" :> <<65535>>)}}
    \cup {WithFailures(AllOk(EnvHot, EmptyDict, t), F, ErrorResponse) :
             F \in FewOrMost(Range(EnvReads))}
    \cup {WithFailures(AllOk(EnvClean, EmptyDict, t), F, Raises) :
             F \in FewOrMost(Range(BmsReads))}
    \cup {WithFailures(AllOk(EnvBad, EmptyDict, t),
                       UNION {DeviceReads[d] : d \in D}, kind) :
             D \in SUBSET DOMAIN DeviceReads, kind \in {ErrorResponse, Raises}}

\* whole degrees, per cent and lux at and next to every threshold of
\* estimate_weather
WeatherTemps == {9, 10, 11, 14, 15, 16, 19, 20, 21, 24, 25, 26}
WeatherHumidities == {49, 50, 51, 69, 70, 71}
WeatherLux == {9999, 10000, 10001, 14999, 15000, 15001, 19999, 20000, 20001}

\* float32 bit patterns: zeros, subnormals, normal numbers, infinities and
\* NaNs, with fractions that reach into each of the four bytes
FloatPatterns ==
    [sign : {0, 1},
     exponent : {0, 1, 127, 128, 142, 254, 255},
     fraction : {0, 1, 255, 256, 65535, 65536, 4194304, 8388607}]

\* the dashboard threads that may be inside set_relay at the same time
Threads == {"t1", "t2"}

\* a snapshot with every key check_alarms and apply_logic look at, each
\* reading in breach, and its restrictions to every subset of the keys that
\* check_alarms reads, to every subset of the keys that apply_logic reads,
\* and to all keys
FullSnapshot ==
    S_all @@ ("is_dark" :> TRUE) @@ ("display_should_be_on" :> TRUE)
          @@ ("bms_low_power_mode" :> TRUE)

AlarmKeys == {"temperature", "humidity", "co2", "battery_soc", "pm2_5"}

RelayKeys == {"is_dark", "display_should_be_on", "bms_low_power_mode", "temperature"}

PartialSnapshots ==
    {[k \in K |-> FullSnapshot[k]] :
        K \in SUBSET AlarmKeys \cup SUBSET RelayKeys \cup {DOMAIN FullSnapshot}}

\* snapshots given to apply_logic under SpecClimate: temperatures at and next
\* to the four thresholds, or none, in low-power mode or not, dark or not
ClimateTemperatures ==
    {1400, 1499, 1500, 1501, 1999, 2000, 2001, 2499, 2500, 2501, 2700, 2999,
     3000, 3001, 3100}

ClimateSnapshots ==
    {a @@ b @@ d : a \in OptField("bms_low_power_mode", BOOLEAN),
                   b \in OptField("is_dark", BOOLEAN),
                   d \in OptField("temperature", ClimateTemperatures)}

\* what load_settings() returns: the interval is absent or set
ReaderSettings == OptField("interval", {4})

\* the relays the dashboard threads switch
ThreadRelays == {"fan", "load1", "siren"}

\* the buses of a cycle followed read by read: every block answering, one
\* block answering with an error, the battery blocks timing out
LoopBuses(t) ==
    {AllOk(EnvClean, EmptyDict, t),
     WithFailures(AllOk(EnvClean, EmptyDict, t), {"temp"}, ErrorResponse),
     WithFailures(AllOk(EnvClean, EmptyDict, t), Range(BmsReads), Raises)}

\* what the bus may do with a request at clock reading t
BusOutcomes(t) == {Ok(regs, t) : regs \in CacheBlocks} \cup {ErrorResponse, Raises}

(***************************************************************************)
(* The state machine                                                       *)
(***************************************************************************)
\* the register reads of one cycle, in the order read_sensors issues them
CycleReads == <<"r">> \o EnvReads \o MpptReads \o <<"pir">> \o BmsReads

\* before the loop of __main__ is entered and before any dashboard request
InitProc ==
    /\ reader = [pc |-> "loop", client_open |-> FALSE, todo |-> <<>>,
                 in_flight |-> {}, bus |-> EmptyDict, started |-> 0,
                 finished |-> 0]
    /\ outputs = [n \in RelayNames |-> FALSE]
    /\ calls = [t \in Threads |-> [pc |-> "idle"]]
    /\ app_alarms = <<>>
    /\ supervisor = [pc |-> "head", interval |-> INTERVAL_SECONDS, alive |-> 0,
                     passes |-> 0, launched |-> 0]

Init ==
    /\ InitProc
    /\ config = GatewayConfig
    /\ active_alarms = <<>>
    /\ alarm_history = <<>>
    /\ now = 0
    /\ inserted = <<>>
    /\ relays = initialize_relays({}).relays
    /\ state = initialize_relays({}).state
    /\ cache = EmptyDict
    /\ timestamps = EmptyDict
    /\ sensor_file = None
    /\ sensor_log = <<>>
    /\ mqtt_connected = FALSE
    /\ published = <<>>
    /\ last = [op |-> "init"]

\* one call of AlarmSystem.check_alarms(data), made at the next clock reading
CheckAlarms(data) ==
    LET r == check_alarms(config, active_alarms, alarm_history, data, now + 1)
    IN  /\ now' = now + 1
        /\ active_alarms' = r.active
        /\ alarm_history' = r.history
        /\ inserted' = inserted \o r.ret
        /\ last' = [op |-> "check_alarms", data |-> data, ret |-> r.ret]
        /\ UNCHANGED <<procVars, config, relayVars, pollVars>>

\* one call of AlarmSystem.clear_alarms(sensor)
ClearAlarms(sensor) ==
    /\ active_alarms' = clear_alarms(active_alarms, sensor)
    /\ last' = [op |-> "clear_alarms", sensor |-> sensor]
    /\ UNCHANGED <<procVars, config, alarm_history, now, inserted, relayVars, pollVars>>

\* one call of ConfigManager.set(key, value)
SetConfig(key, value) ==
    /\ config' = ConfigSet(config, key, value)
    /\ last' = [op |-> "set", key |-> key]
    /\ UNCHANGED <<procVars, active_alarms, alarm_history, now, inserted, relayVars, pollVars>>

\* one automation pass apply_logic(data)
ApplyLogic(data, failed) ==
    LET r == apply_logic([relays |-> relays, state |-> state], data, failed)
    IN  /\ relays' = r.relays
        /\ state' = r.state
        /\ last' = [op |-> "apply_logic", data |-> data, failed |-> failed,
                    raised |-> r.raised]
        /\ UNCHANGED <<procVars, alarmVars, pollVars>>

\* one dashboard command manual_control(name, value)
ManualControl(name, value, raises) ==
    LET r == manual_control([relays |-> relays, state |-> state], name, value, raises)
    IN  /\ relays' = r.relays
        /\ state' = r.state
        /\ last' = [op |-> "manual_control", name |-> name, value |-> value,
                    ret |-> r.ret]
        /\ UNCHANGED <<procVars, alarmVars, pollVars>>

\* one second passes
Tick ==
    /\ now' = now + 1
    /\ last' = [op |-> "tick"]
    /\ UNCHANGED <<procVars, config, active_alarms, alarm_history, inserted, relayVars,
                   pollVars>>

\* one call of sensor_cache.get(key)
CacheGet(key) ==
    LET r == cache_get([cache |-> cache, timestamps |-> timestamps], key, now)
    IN  /\ cache' = r.cache
        /\ timestamps' = r.timestamps
        /\ last' = [op |-> "cache_get", key |-> key, ret |-> r.ret,
                    had |-> key \in DOMAIN cache]
        /\ UNCHANGED <<procVars, alarmVars, relayVars, sensor_file, sensor_log,
                       mqtt_connected, published>>

\* one call of sensor_cache.set(key, value)
CacheSet(key, value) ==
    LET r == cache_set([cache |-> cache, timestamps |-> timestamps], key, value, now)
    IN  /\ cache' = r.cache
        /\ timestamps' = r.timestamps
        /\ last' = [op |-> "cache_set", key |-> key, value |-> value]
        /\ UNCHANGED <<procVars, alarmVars, relayVars, sensor_file, sensor_log,
                       mqtt_connected, published>>

\* one call of read_sensor_safe for the block key, the bus answering with bus
ReadSensorSafe(key, bus) ==
    LET r == read_sensor_safe([cache |-> cache, timestamps |-> timestamps],
                              key, bus, now)
    IN  /\ cache' = r.cache
        /\ timestamps' = r.timestamps
        /\ last' = [op |-> "read_sensor_safe", key |-> key, ret |-> r.ret,
                    reads |-> r.reads]
        /\ UNCHANGED <<procVars, alarmVars, relayVars, sensor_file, sensor_log,
                       mqtt_connected, published>>

\* one iteration of the polling loop at clock reading now: read_sensors, then
\* time.sleep(interval).  connects: client.connect() succeeds; saved: the
\* write of sensors.json succeeds; failed: the relays whose device write raises
ReadSensors(connects, bus, saved, failed) ==
    \E p \in {read_sensors([cache |-> cache, timestamps |-> timestamps],
                           connects, bus, now)} :
    \E a \in {check_alarms(config, active_alarms, alarm_history, p.result, now)} :
    \E rl \in {apply_logic([relays |-> relays, state |-> state], p.result,
                           failed)} :
    LET result == p.result
        topic == ConfigGet(config, "mqtt_topic", "nugateway/sensors")
        alarm_msgs ==
            IF a.ret # <<>> /\ mqtt_connected
            THEN [i \in 1..Len(a.ret) |->
                     [topic |-> topic \o "/alarms", payload |-> a.ret[i]]]
            ELSE <<>>
        data_msgs ==
            IF mqtt_connected THEN <<[topic |-> topic, payload |-> result]>>
            ELSE <<>>
    IN  /\ cache' = p.cache
        /\ timestamps' = p.timestamps
        /\ IF connects
           THEN /\ sensor_file' = IF saved THEN Some(result) ELSE sensor_file
                /\ sensor_log' =
                       IF ConfigGet(config, "enable_data_logging", TRUE)
                       THEN Append(sensor_log,
                                   [timestamp |-> now, data |-> result])
                       ELSE sensor_log
                /\ active_alarms' = a.active
                /\ alarm_history' = a.history
                /\ inserted' = inserted \o a.ret
                /\ published' = published \o alarm_msgs \o data_msgs
                /\ relays' = rl.relays
                /\ state' = rl.state
           ELSE UNCHANGED <<sensor_file, sensor_log, active_alarms,
                            alarm_history, inserted, published, relays, state>>
        /\ now' = now + ConfigGet(config, "interval", 10)
        /\ last' = [op |-> "read_sensors", connects |-> connects,
                    kinds |-> [n \in DOMAIN bus |-> bus[n].kind],
                    rets |-> p.rets, reads |-> p.reads, ret |-> result,
                    completed |-> connects /\ ~rl.raised]
        /\ UNCHANGED <<procVars, config, mqtt_connected>>

\* the alarm engine under arbitrary calls
Next ==
    \/ \E data \in Snapshots : now < MaxTime /\ CheckAlarms(data)
    \/ \E sensor \in SensorArgs : ClearAlarms(sensor)
    \/ \E key \in DOMAIN ConfigValues : \E value \in ConfigValues[key] :
           SetConfig(key, value)

Spec == Init /\ [][Next]_vars

\* the alarm engine while a breach persists, long enough to fill the history
NextHistory ==
    \/ now < MaxHistTime /\ CheckAlarms(PersistentBreach)
    \/ ClearAlarms(None)

SpecHistory == Init /\ [][NextHistory]_vars

\* the relay bank under automation passes and manual commands; a pass may
\* meet one relay whose device write raises
NextRelay ==
    \/ \E data \in RelaySnapshots : ApplyLogic(data, {})
    \/ \E data \in OptField("temperature", Temperatures) : \E name \in RelayNames :
           ApplyLogic(data, {name})
    \/ \E name \in ManualNames : \E value, raises \in BOOLEAN :
           ManualControl(name, value, raises)

SpecRelay == Init /\ [][NextRelay]_vars

\* the relay bank when the device of one relay could not be created
InitRelayFail ==
    /\ InitProc
    /\ config = GatewayConfig
    /\ active_alarms = <<>>
    /\ alarm_history = <<>>
    /\ now = 0
    /\ inserted = <<>>
    /\ \E initFailed \in FailureSets :
           /\ relays = initialize_relays(initFailed).relays
           /\ state = initialize_relays(initFailed).state
    /\ cache = EmptyDict
    /\ timestamps = EmptyDict
    /\ sensor_file = None
    /\ sensor_log = <<>>
    /\ mqtt_connected = FALSE
    /\ published = <<>>
    /\ last = [op |-> "init"]

\* automation passes in which the device write of one relay may raise
NextRelayFail ==
    \/ \E data \in FailSnapshots : \E failed \in FailureSets :
           ApplyLogic(data, failed)
    \/ \E name \in {"fan", "heater"} : \E value, raises \in BOOLEAN :
           ManualControl(name, value, raises)

SpecRelayFail == InitRelayFail /\ [][NextRelayFail]_vars

\* the read cache under lookups, stores and cached reads while the clock runs
NextCache ==
    \/ now < MaxClock /\ Tick
    \/ \E key \in CacheKeys : CacheGet(key)
    \/ \E key \in CacheKeys : \E regs \in CacheBlocks : CacheSet(key, Ok(regs, now))
    \/ \E key \in CacheKeys : \E bus \in BusOutcomes(now) : ReadSensorSafe(key, bus)

SpecCache == Init /\ [][NextCache]_vars

\* classify_air_quality applied to a pair of readings
InitClassify ==
    /\ InitProc
    /\ config = GatewayConfig
    /\ active_alarms = <<>>
    /\ alarm_history = <<>>
    /\ now = 0
    /\ inserted = <<>>
    /\ relays = initialize_relays({}).relays
    /\ state = initialize_relays({}).state
    /\ cache = EmptyDict
    /\ timestamps = EmptyDict
    /\ sensor_file = None
    /\ sensor_log = <<>>
    /\ mqtt_connected = FALSE
    /\ published = <<>>
    /\ \E pm2_5 \in PM25Values : \E co2 \in CO2Values :
           last = [op |-> "args", pm2_5 |-> pm2_5, co2 |-> co2]

ClassifyAirQuality ==
    /\ last.op = "args"
    /\ last' = [op |-> "classify_air_quality", pm2_5 |-> last.pm2_5,
                co2 |-> last.co2,
                ret |-> classify_air_quality(last.pm2_5, last.co2)]
    /\ UNCHANGED <<procVars, alarmVars, relayVars, pollVars>>

NextClassify == ClassifyAirQuality

SpecClassify == InitClassify /\ [][NextClassify]_vars

\* the polling loop of modbus_reader.py: the configured interval is shorter
\* or longer than the cache ttl, and the MQTT client is connected or not
PollIntervals == {4, 10}

InitPoll ==
    /\ InitProc
    /\ \E i \in PollIntervals :
           /\ config = [GatewayConfig EXCEPT !.interval = i,
                                             !.mqtt_enabled = (i = 4)]
           /\ mqtt_connected = (i = 4)
    /\ active_alarms = <<>>
    /\ alarm_history = <<>>
    /\ now = 0
    /\ inserted = <<>>
    /\ relays = initialize_relays({}).relays
    /\ state = initialize_relays({}).state
    /\ cache = EmptyDict
    /\ timestamps = EmptyDict
    /\ sensor_file = None
    /\ sensor_log = <<>>
    /\ published = <<>>
    /\ last = [op |-> "init"]

NextPoll ==
    \/ \E bus \in PollBuses(now) :
           now < MaxPollClock /\ ReadSensors(TRUE, bus, TRUE, {})
    \/ now < MaxPollClock
           /\ ReadSensors(FALSE, AllOk(EnvClean, EmptyDict, now), TRUE, {})
    \/ \E saved \in BOOLEAN : \E failed \in {{}, {"fan"}, {"led_light"}} :
           now < MaxPollClock
           /\ ReadSensors(TRUE, AllOk(EnvHot, EmptyDict, now), saved, failed)

SpecPoll == InitPoll /\ [][NextPoll]_vars

\* The polling loop followed read by read.  pc is where the loop is: at the
\* head of the while loop, between two read_sensor_safe calls (poll), inside
\* a bus read (wait), after client.close() (post) or in time.sleep (sleep).
\* What the cycle does with the values read is described by ReadSensors.

\* read_sensors is called and the client connects or not; bus is what the
\* devices will answer in this cycle
LoopConnect(connects, bus) ==
    /\ reader.pc = "loop"
    /\ reader.started < MaxCycles
    /\ reader' = IF connects
                 THEN [reader EXCEPT !.pc = "poll", !.client_open = TRUE,
                                     !.todo = CycleReads, !.bus = bus,
                                     !.started = @ + 1]
                 ELSE [reader EXCEPT !.pc = "sleep", !.started = @ + 1,
                                     !.finished = @ + 1]
    /\ last' = [op |-> "connect", ret |-> connects]
    /\ UNCHANGED <<alarmVars, relayVars, pollVars, outputs, calls, app_alarms, supervisor>>

\* a reader that asks for the next block while a read is on the bus
can_issue_pipelined(r) == r.pc \in {"poll", "wait"} /\ r.todo # <<>>

\* read_sensor_safe is called for the next block once the previous call has
\* returned
can_issue(r) == r.pc = "poll" /\ r.todo # <<>>

\* read_sensor_safe up to the request: a cached block is returned, otherwise
\* the request goes to the bus
LoopIssueRead ==
    /\ can_issue(reader)
    /\ \E n \in {Head(reader.todo)} :
       \E g \in {cache_get([cache |-> cache, timestamps |-> timestamps],
                           ReadKey[n], now)} :
           /\ cache' = g.cache
           /\ timestamps' = g.timestamps
           /\ reader' = IF g.ret # None
                        THEN [reader EXCEPT !.todo = Tail(@)]
                        ELSE [reader EXCEPT !.todo = Tail(@), !.pc = "wait",
                                            !.in_flight = @ \cup {n}]
           /\ last' = [op |-> "issue", block |-> n, hit |-> g.ret # None]
    /\ UNCHANGED <<alarmVars, relayVars, sensor_file, sensor_log,
                   mqtt_connected, published, outputs, calls, app_alarms, supervisor>>

\* the read on the bus ends with registers, an error response or an
\* exception (the client's timeout); registers are cached
LoopCompleteRead ==
    /\ reader.in_flight # {}
    /\ \E n \in reader.in_flight :
       \E s \in {IF reader.bus[n].kind = "ok"
                 THEN cache_set([cache |-> cache, timestamps |-> timestamps],
                                ReadKey[n], reader.bus[n], now)
                 ELSE [cache |-> cache, timestamps |-> timestamps]} :
           /\ cache' = s.cache
           /\ timestamps' = s.timestamps
           /\ reader' = [reader EXCEPT !.in_flight = @ \ {n}, !.pc = "poll"]
           /\ last' = [op |-> "complete", block |-> n,
                       kind |-> reader.bus[n].kind]
    /\ UNCHANGED <<alarmVars, relayVars, sensor_file, sensor_log,
                   mqtt_connected, published, outputs, calls, app_alarms, supervisor>>

\* client.close() after the last step
LoopClose ==
    /\ reader.pc = "poll"
    /\ reader.todo = <<>>
    /\ reader' = [reader EXCEPT !.pc = "post", !.client_open = FALSE]
    /\ last' = [op |-> "close"]
    /\ UNCHANGED <<alarmVars, relayVars, pollVars, outputs, calls, app_alarms, supervisor>>

\* read_sensors returns
LoopReturn ==
    /\ reader.pc = "post"
    /\ reader' = [reader EXCEPT !.pc = "sleep", !.finished = @ + 1]
    /\ last' = [op |-> "return"]
    /\ UNCHANGED <<alarmVars, relayVars, pollVars, outputs, calls, app_alarms, supervisor>>

\* time.sleep(interval), then the head of the loop
LoopSleep ==
    /\ reader.pc = "sleep"
    /\ now' = now + ConfigGet(config, "interval", interval_default)
    /\ reader' = [reader EXCEPT !.pc = "loop"]
    /\ last' = [op |-> "sleep"]
    /\ UNCHANGED <<config, active_alarms, alarm_history, inserted, relayVars,
                   pollVars, outputs, calls, app_alarms, supervisor>>

NextLoop ==
    \/ \E bus \in LoopBuses(now) : LoopConnect(TRUE, bus)
    \/ LoopConnect(FALSE, EmptyDict)
    \/ LoopIssueRead
    \/ LoopCompleteRead
    \/ LoopClose
    \/ LoopReturn
    \/ LoopSleep

SpecLoop == InitPoll /\ [][NextLoop]_vars

\* set_relay followed statement by statement in the threads that serve the
\* dashboard's POST /api/relay/<name>: RelayController takes no lock, so the
\* statements of two calls interleave freely.

\* lines 77-79: the lookup of the relay
SetRelayEnter(t, name, value) ==
    /\ calls[t].pc = "idle"
    /\ calls' = [calls EXCEPT ![t] =
                    IF name \in relays
                    THEN [pc |-> "device", name |-> name, value |-> value]
                    ELSE [pc |-> "idle"]]
    /\ last' = [op |-> "set_relay", thread |-> t, name |-> name,
                value |-> value, done |-> name \notin relays, ret |-> FALSE]
    /\ UNCHANGED <<alarmVars, relayVars, pollVars, reader, outputs, app_alarms, supervisor>>

\* line 82: self.relays[name].value = state; a setter that raises ends the
\* call in the except branch
SetRelayWriteDevice(t, raises) ==
    /\ calls[t].pc = "device"
    /\ outputs' = IF raises THEN outputs
                  ELSE [outputs EXCEPT ![calls[t].name] = calls[t].value]
    /\ calls' = [calls EXCEPT ![t] =
                    IF raises THEN [pc |-> "idle"] ELSE [@ EXCEPT !.pc = "state"]]
    /\ last' = [op |-> "set_relay", thread |-> t, name |-> calls[t].name,
                value |-> calls[t].value, done |-> raises, ret |-> FALSE]
    /\ UNCHANGED <<alarmVars, relayVars, pollVars, reader, app_alarms, supervisor>>

\* lines 83-85: self.state[name] = state; return True
SetRelayWriteState(t) ==
    /\ calls[t].pc = "state"
    /\ state' = [n \in DOMAIN state \cup {calls[t].name} |->
                    IF n = calls[t].name THEN calls[t].value ELSE state[n]]
    /\ calls' = [calls EXCEPT ![t] = [pc |-> "idle"]]
    /\ last' = [op |-> "set_relay", thread |-> t, name |-> calls[t].name,
                value |-> calls[t].value, done |-> TRUE, ret |-> TRUE]
    /\ UNCHANGED <<alarmVars, relays, pollVars, reader, outputs, app_alarms, supervisor>>

NextThreads ==
    \/ \E t \in Threads : \E name \in ThreadRelays : \E value \in BOOLEAN :
           SetRelayEnter(t, name, value)
    \/ \E t \in Threads : \E raises \in BOOLEAN : SetRelayWriteDevice(t, raises)
    \/ \E t \in Threads : SetRelayWriteState(t)

SpecThreads == Init /\ [][NextThreads]_vars

\* check_alarms and then apply_logic on the same partial snapshot, as lines
\* 274-290 of read_sensors call them; the alarm engine starts fresh or after a
\* call that raised every alarm at clock reading 0
InitPartial ==
    /\ InitProc
    /\ config = GatewayConfig
    /\ \E prior \in {EmptyDict, FullSnapshot} :
       \E r \in {check_alarms(GatewayConfig, <<>>, <<>>, prior, 0)} :
           /\ active_alarms = r.active
           /\ alarm_history = r.history
           /\ inserted = r.ret
    /\ now = 0
    /\ relays = initialize_relays({}).relays
    /\ state = initialize_relays({}).state
    /\ cache = EmptyDict
    /\ timestamps = EmptyDict
    /\ sensor_file = None
    /\ sensor_log = <<>>
    /\ mqtt_connected = FALSE
    /\ published = <<>>
    /\ last = [op |-> "init"]

NextPartial ==
    \/ \E data \in PartialSnapshots :
           now < MaxPartialTime /\ last.op # "check_alarms" /\ CheckAlarms(data)
    \/ last.op = "check_alarms" /\ ApplyLogic(last.data, {})

SpecPartial == InitPartial /\ [][NextPartial]_vars

\* The dashboard process next to the reader process.  app.py creates its own
\* AlarmSystem (line 40) and never calls its check_alarms; the reader's
\* read_sensors works on the AlarmSystem that modbus_reader.py creates
\* (line 296).

\* GET /api/alarms/active
ApiActiveAlarms ==
    /\ last' = [op |-> "api_active_alarms", ret |-> get_active_alarms(app_alarms)]
    /\ UNCHANGED <<alarmVars, relayVars, pollVars, procVars>>

\* POST /api/alarms/clear with the sensor of the request body
ApiClearAlarms(sensor) ==
    /\ app_alarms' = clear_alarms(app_alarms, sensor)
    /\ last' = [op |-> "api_clear_alarms", sensor |-> sensor]
    /\ UNCHANGED <<alarmVars, relayVars, pollVars, reader, outputs, calls, supervisor>>

NextDashboard ==
    \/ \E env \in EnvProfiles : \E words \in {EmptyDict, ("soc" :> <<15>>)} :
           now < MaxPollClock
           /\ ReadSensors(TRUE, AllOk(env, words, now), TRUE, {})
    \/ ApiActiveAlarms
    \/ \E sensor \in SensorArgs : ApiClearAlarms(sensor)

SpecDashboard == InitPoll /\ [][NextDashboard]_vars

\* the fan and the heater under automation passes and dashboard commands
NextClimate ==
    \/ \E data \in ClimateSnapshots : ApplyLogic(data, {})
    \/ \E name \in {"fan", "heater"} : \E value \in BOOLEAN :
           ManualControl(name, value, FALSE)

SpecClimate == Init /\ [][NextClimate]_vars

\* update_loop.py: run_reader launches modbus_reader.py with subprocess.run,
\* which returns when the launched process has exited, and the launched
\* process runs the polling loop of modbus_reader.py's __main__.  alive is
\* the number of reader processes running, passes the number of times the
\* running reader has called read_sensors.

\* lines 10-15: the settings are loaded and modbus_reader.py is launched; the
\* new process builds its own cache, alarm system, MQTT client and relays
RunReaderLaunch(settings) ==
    /\ supervisor.pc = "head"
    /\ supervisor.launched < MaxLaunches
    /\ supervisor' = [pc |-> "run",
                      interval |-> Get(settings, "interval", INTERVAL_SECONDS),
                      alive |-> supervisor.alive + 1,
                      passes |-> 0,
                      launched |-> supervisor.launched + 1]
    /\ active_alarms' = <<>>
    /\ alarm_history' = <<>>
    /\ cache' = EmptyDict
    /\ timestamps' = EmptyDict
    /\ relays' = initialize_relays({}).relays
    /\ state' = initialize_relays({}).state
    /\ mqtt_connected' = ConfigGet(config, "mqtt_enabled", FALSE)
    /\ last' = [op |-> "launch"]
    /\ UNCHANGED <<config, now, inserted, sensor_file, sensor_log, published,
                   reader, outputs, calls, app_alarms>>

\* modbus_reader.py lines 307-308: the head of the reader's while True loop,
\* where read_sensors is called
ReaderStartPass ==
    /\ supervisor.pc = "run"
    /\ supervisor.alive > 0
    /\ last.op \in {"launch", "read_sensors"}
    /\ now < MaxPollClock
    /\ supervisor' = [supervisor EXCEPT !.passes = @ + 1]
    /\ last' = [op |-> "start_pass"]
    /\ UNCHANGED <<alarmVars, relayVars, pollVars, reader, outputs, calls,
                   app_alarms>>

\* modbus_reader.py lines 308-309: read_sensors and time.sleep(interval)
ReaderPass(connects, bus) ==
    /\ last.op = "start_pass"
    /\ ReadSensors(connects, bus, TRUE, {})

\* modbus_reader.py lines 310-317: the loop is left by KeyboardInterrupt or by
\* an exception, which are logged, and the process exits with status 0; a
\* reader that is killed exits with another status
ReaderExit(status) ==
    /\ supervisor.pc = "run"
    /\ supervisor.alive > 0
    /\ last.op \in {"launch", "read_sensors"}
    /\ supervisor' = [supervisor EXCEPT !.alive = @ - 1]
    /\ last' = [op |-> "exit", status |-> status]
    /\ UNCHANGED <<alarmVars, relayVars, pollVars, reader, outputs, calls,
                   app_alarms>>

\* lines 15-18: subprocess.run returns or raises CalledProcessError, which is
\* caught
RunReaderReturn ==
    /\ supervisor.pc = "run"
    /\ supervisor.alive = 0
    /\ supervisor' = [supervisor EXCEPT !.pc = "sleep"]
    /\ last' = [op |-> "run_returned", ok |-> last.status = 0]
    /\ UNCHANGED <<alarmVars, relayVars, pollVars, reader, outputs, calls,
                   app_alarms>>

\* line 20: time.sleep(interval), then the head of the loop
RunReaderSleep ==
    /\ supervisor.pc = "sleep"
    /\ now' = now + supervisor.interval
    /\ supervisor' = [supervisor EXCEPT !.pc = "head"]
    /\ last' = [op |-> "run_sleep"]
    /\ UNCHANGED <<config, active_alarms, alarm_history, inserted, relayVars,
                   pollVars, reader, outputs, calls, app_alarms>>

NextSupervisor ==
    \/ \E settings \in ReaderSettings : RunReaderLaunch(settings)
    \/ ReaderStartPass
    \/ \E bus \in LoopBuses(now) \cup {AllOk(EnvBad, EmptyDict, now)} :
           ReaderPass(TRUE, bus)
    \/ ReaderPass(FALSE, EmptyDict)
    \/ \E status \in {0, 1} : ReaderExit(status)
    \/ RunReaderReturn
    \/ RunReaderSleep

SpecSupervisor == InitPoll /\ [][NextSupervisor]_vars

\* set_relay called for known and unknown names, with device writes that
\* succeed or raise, on a relay bank of which one device may be missing
NextSetRelay ==
    \E name \in ManualNames : \E value, raises \in BOOLEAN :
        ManualControl(name, value, raises)

SpecSetRelay == InitRelayFail /\ [][NextSetRelay]_vars

\* the state before any call, except for last
InitQuiet ==
    /\ InitProc
    /\ config = GatewayConfig
    /\ active_alarms = <<>>
    /\ alarm_history = <<>>
    /\ now = 0
    /\ inserted = <<>>
    /\ relays = initialize_relays({}).relays
    /\ state = initialize_relays({}).state
    /\ cache = EmptyDict
    /\ timestamps = EmptyDict
    /\ sensor_file = None
    /\ sensor_log = <<>>
    /\ mqtt_connected = FALSE
    /\ published = <<>>

\* estimate_weather applied to a triple of readings
InitWeather ==
    /\ InitQuiet
    /\ \E temp \in WeatherTemps : \E humidity \in WeatherHumidities :
       \E lux \in WeatherLux :
           last = [op |-> "args", temp |-> temp * FloatUnit,
                   humidity |-> humidity * FloatUnit, lux |-> lux]

EstimateWeather ==
    /\ last.op = "args"
    /\ last' = [op |-> "estimate_weather", temp |-> last.temp,
                humidity |-> last.humidity, lux |-> last.lux,
                ret |-> estimate_weather(last.temp, last.humidity, last.lux)]
    /\ UNCHANGED <<procVars, alarmVars, relayVars, pollVars>>

NextWeather == EstimateWeather

SpecWeather == InitWeather /\ [][NextWeather]_vars

\* a float32 bit pattern is split into registers by float_to_regs and
\* recombined by read_float32_ieee754
InitFloat ==
    /\ InitQuiet
    /\ \E bits \in FloatPatterns : last = [op |-> "bits", bits |-> bits]

FloatToRegs ==
    /\ last.op = "bits"
    /\ last' = [op |-> "float_to_regs", bits |-> last.bits,
                regs |-> unpack_HH(pack_f(last.bits))]
    /\ UNCHANGED <<procVars, alarmVars, relayVars, pollVars>>

ReadFloat32 ==
    /\ last.op = "float_to_regs"
    /\ \E b \in {to_bytes(last.regs)} :
           last' = [op |-> "read_float32_ieee754", bits |-> last.bits,
                    regs |-> last.regs, raised |-> b = None,
                    ret |-> IF b = None THEN float_bits(0) ELSE unpack_f(b[1])]
    /\ UNCHANGED <<procVars, alarmVars, relayVars, pollVars>>

NextFloat == FloatToRegs \/ ReadFloat32

SpecFloat == InitFloat /\ [][NextFloat]_vars

(***************************************************************************)
(* Properties                                                              *)
(***************************************************************************)
Min(a, b) == IF a < b THEN a ELSE b

SamePair(a, b) == a.sensor = b.sensor /\ a.level = b.level

\* C1: active_alarms never holds two alarms with the same (sensor, level).
C1_NoDuplicateActive ==
    \A i, j \in 1..Len(active_alarms) :
        i # j => ~SamePair(active_alarms[i], active_alarms[j])

\* a rule fired again for a pair that was already active
C1_Witness ==
    /\ last.op = "check_alarms"
    /\ \E a \in Range(last.ret) : \E b \in Range(active_alarms) :
           SamePair(a, b) /\ a # b

\* C2: the history never holds more than max_history (100) alarms, in every
\* reachable state and after each single insertion of any further call.
C2_HistoryBounded ==
    /\ Len(alarm_history) <= 100
    /\ \A data \in Snapshots \cup {PersistentBreach} :
           LET new == new_alarms(config, data, now + 1)
           IN  \A k \in 1..Len(new) :
                   Len(add_all([active |-> active_alarms, history |-> alarm_history],
                               SubSeq(new, 1, k)).history) <= 100

\* more than 100 alarms were inserted and the history is full
C2_Witness == Len(inserted) > 100 /\ Len(alarm_history) = 100

\* C3: the history is the last min(n, 100) of the n alarms inserted so far, in
\* insertion order.
C3_HistoryFifo ==
    LET n == Len(inserted)
    IN  alarm_history = SubSeq(inserted, n - Min(n, 100) + 1, n)

\* after 150 insertions the history holds alarms 51..150
C3_Witness ==
    /\ Len(inserted) = 150
    /\ alarm_history = SubSeq(inserted, 51, 150)
    /\ alarm_history[1] # inserted[1]

\* C4: a check_alarms call leaves every alarm that was active in place and
\* unchanged, adds nothing to active_alarms for a pair that was already
\* active, and still appends every new alarm to the history.
C4_DedupKeepsActive ==
    [][last'.op = "check_alarms" =>
        LET ret == last'.ret
            known(a) == \E b \in Range(active_alarms) : SamePair(a, b)
        IN  /\ Len(active_alarms') >= Len(active_alarms)
            /\ SubSeq(active_alarms', 1, Len(active_alarms)) = active_alarms
            /\ \A i \in Len(active_alarms) + 1 .. Len(active_alarms') :
                   ~known(active_alarms'[i])
            /\ (\A a \in Range(ret) : known(a)) => active_alarms' = active_alarms
            /\ Len(alarm_history') >= Len(ret)
            /\ SubSeq(alarm_history', Len(alarm_history') - Len(ret) + 1,
                      Len(alarm_history')) = ret
            /\ Len(alarm_history') = Len(alarm_history) + Len(ret)
    ]_vars

\* the same breaching snapshot evaluated twice from the empty state: one
\* active entry, two history entries
C4_Witness ==
    /\ last.op = "check_alarms"
    /\ last.data = S_high
    /\ Len(active_alarms) = 1
    /\ Len(alarm_history) = 2
    /\ SamePair(alarm_history[1], alarm_history[2])
    /\ alarm_history[1] # alarm_history[2]
    /\ active_alarms[1] = alarm_history[1]
    /\ last.ret = <<alarm_history[2]>>

\* C5: with alarm_enabled false, check_alarms returns the empty list and
\* changes neither active_alarms nor alarm_history.
C5_DisabledNoChange ==
    [][(last'.op = "check_alarms" /\ ~config.alarm_enabled) =>
        /\ last'.ret = <<>>
        /\ active_alarms' = active_alarms
        /\ alarm_history' = alarm_history
    ]_vars

\* a snapshot breaching all rules was evaluated while alarms were disabled
C5_Witness ==
    /\ last.op = "check_alarms"
    /\ ~config.alarm_enabled
    /\ last.data = S_all
    /\ last.ret = <<>>

\* C6: clear_alarms with a sensor name removes exactly the active alarms of
\* that sensor; without one (None, or the empty name, which "if sensor:"
\* treats alike) it empties active_alarms; the history is never changed.
C6_ClearFrame ==
    [][last'.op = "clear_alarms" =>
        LET sensor == last'.sensor
            named == sensor # None /\ sensor[1] # ""
            kept == {i \in 1..Len(active_alarms) : active_alarms[i].sensor # sensor[1]}
        IN  /\ alarm_history' = alarm_history
            /\ named =>
                   /\ Range(active_alarms') = {active_alarms[i] : i \in kept}
                   /\ Len(active_alarms') = Cardinality(kept)
            /\ ~named => active_alarms' = <<>>
    ]_vars

\* a clear by name that removed an alarm and kept another
C6_Witness ==
    /\ last.op = "clear_alarms"
    /\ last.sensor = Some("temperature")
    /\ active_alarms # <<>>
    /\ \E a \in Range(alarm_history) : a.sensor = "temperature"
    /\ \A a \in Range(active_alarms) : a.sensor # "temperature"

\* C7: with alarms enabled, every rule yields an alarm exactly when its field
\* is present and its strict condition holds, independently of the others.
C7_RulesIndependent ==
    (last.op = "check_alarms" /\ config.alarm_enabled) =>
        LET data == last.data
            fired(sensor, level, threshold, text) ==
                \E a \in Range(last.ret) :
                    /\ a.sensor = sensor /\ a.level = level
                    /\ a.threshold = threshold /\ a.message[1] = text
                    /\ a.value = data[sensor]
        IN  /\ fired("temperature", "warning", config.temp_alarm_high, "Yuksek sicaklik")
                <=> (Has(data, "temperature")
                     /\ data["temperature"] > config.temp_alarm_high)
            /\ fired("temperature", "warning", config.temp_alarm_low, "Dusuk sicaklik")
                <=> (Has(data, "temperature")
                     /\ data["temperature"] < config.temp_alarm_low)
            /\ fired("humidity", "warning", config.humidity_alarm_high, "Yuksek nem")
                <=> (Has(data, "humidity")
                     /\ data["humidity"] > config.humidity_alarm_high)
            /\ fired("co2", "critical", config.co2_alarm_high, "Yuksek CO2 seviyesi")
                <=> (Has(data, "co2") /\ data["co2"] > config.co2_alarm_high)
            /\ fired("battery_soc", "critical", config.battery_soc_alarm_low, "Dusuk batarya")
                <=> (Has(data, "battery_soc")
                     /\ data["battery_soc"] < config.battery_soc_alarm_low)
            /\ fired("pm2_5", "warning", 5500, "Yuksek partikul seviyesi (PM2.5)")
                <=> (Has(data, "pm2_5") /\ data["pm2_5"] > 5500)

\* C8: after a pass with a temperature whose fan write succeeds, the fan is
\* ON above 30.0, OFF below 25.0 and as before the pass from 25.0 to 30.0.
C8_FanHysteresis ==
    [][(/\ last'.op = "apply_logic"
        /\ Has(last'.data, "temperature")
        /\ "fan" \in relays
        /\ "fan" \notin last'.failed) =>
        LET temp == last'.data["temperature"]
        IN  state'["fan"] = (IF temp > 3000 THEN TRUE
                             ELSE IF temp < 2500 THEN FALSE
                             ELSE state["fan"])
    ]_vars

\* the fan, switched on earlier, was held ON by a pass at 27.0
C8_Witness ==
    /\ last.op = "apply_logic"
    /\ Has(last.data, "temperature")
    /\ last.data["temperature"] = 2700
    /\ state["fan"]

\* C9: a pass on a snapshot without temperature leaves the fan and the heater
\* as they were.
C9_AbsentTemperatureHolds ==
    [][(last'.op = "apply_logic" /\ ~Has(last'.data, "temperature")) =>
        /\ state'["fan"] = state["fan"]
        /\ state'["heater"] = state["heater"]
    ]_vars

\* C10: after a pass with a temperature whose heater write succeeds, the
\* heater is ON below 15.0, OFF above 20.0 and as before from 15.0 to 20.0.
C10_HeaterHysteresis ==
    [][(/\ last'.op = "apply_logic"
        /\ Has(last'.data, "temperature")
        /\ "heater" \in relays
        /\ "heater" \notin last'.failed) =>
        LET temp == last'.data["temperature"]
        IN  state'["heater"] = (IF temp < 1500 THEN TRUE
                                ELSE IF temp > 2000 THEN FALSE
                                ELSE state["heater"])
    ]_vars

\* the heater, switched on earlier, was held ON by a pass at 20.0
C10_Witness ==
    /\ last.op = "apply_logic"
    /\ Has(last.data, "temperature")
    /\ last.data["temperature"] = 2000
    /\ state["heater"]

\* C11: after a pass whose writes to led_light, display, load1 and load2
\* succeed, led_light is is_dark (OFF if absent), display is
\* display_should_be_on (OFF if absent), and load1 and load2 are both the
\* negation of bms_low_power_mode (ON if absent), whatever they were before.
C11_DirectRelays ==
    [][(/\ last'.op = "apply_logic"
        /\ {"led_light", "display", "load1", "load2"} \subseteq relays
        /\ {"led_light", "display", "load1", "load2"} \cap last'.failed = {}) =>
        LET data == last'.data
        IN  /\ state'["led_light"] = (IF Has(data, "is_dark") THEN data["is_dark"] ELSE FALSE)
            /\ state'["display"] = (IF Has(data, "display_should_be_on")
                                    THEN data["display_should_be_on"] ELSE FALSE)
            /\ state'["load1"] = state'["load2"]
            /\ state'["load1"] = (IF Has(data, "bms_low_power_mode")
                                  THEN ~data["bms_low_power_mode"] ELSE TRUE)
    ]_vars

\* a pass in low-power mode switched the loads off and the light on
C11_Witness ==
    /\ last.op = "apply_logic"
    /\ Has(last.data, "bms_low_power_mode") /\ last.data["bms_low_power_mode"]
    /\ Has(last.data, "is_dark") /\ last.data["is_dark"]
    /\ ~Has(last.data, "display_should_be_on")
    /\ ~state["load1"] /\ ~state["load2"] /\ state["led_light"] /\ ~state["display"]

\* the value of relay n after a pass on data that wrote it successfully
PolicyValue(n, data, before) ==
    LET w == policy_writes(data)
    IN  IF \E i \in 1..Len(w) : w[i][1] = n
        THEN (CHOOSE v \in BOOLEAN : \E i \in 1..Len(w) : w[i] = <<n, v>>)
        ELSE before[n]

\* C12: a pass in which the write to one relay fails (its setter raises, or
\* it has no device) does not raise, and every other relay ends the pass
\* with the value the policy writes to it (or keeps its state if the policy
\* writes nothing to it).
C12_FailureIsolated ==
    [][last'.op = "apply_logic" =>
        /\ ~last'.raised
        /\ relays' = relays
        /\ DOMAIN state' = DOMAIN state
        /\ \A n \in relays \ last'.failed :
               state'[n] = PolicyValue(n, last'.data, state)
        /\ \A n \in relays \cap last'.failed : state'[n] = state[n]
    ]_vars

\* the first write of a pass failed (led_light) and the last one succeeded
C12_Witness ==
    /\ last.op = "apply_logic"
    /\ relays = RelayNames
    /\ last.failed = {"led_light"}
    /\ Has(last.data, "is_dark") /\ last.data["is_dark"] /\ ~state["led_light"]
    /\ Has(last.data, "temperature") /\ last.data["temperature"] = 1499
    /\ state["heater"] /\ ~state["load1"] /\ state["display"]

\* C13: SensorCache.get returns the stored value exactly when the key is
\* present and younger than ttl; a lookup of an entry of age ttl or more
\* misses and deletes the key from both maps; a lookup right after a store
\* returns the value just stored.
C13_CacheGet ==
    [][/\ last'.op = "cache_get" =>
            LET k == last'.key
                fresh == k \in DOMAIN cache /\ now - timestamps[k] < ttl
            IN  /\ (last'.ret # None) <=> fresh
                /\ fresh => last'.ret = Some(cache[k])
                /\ (k \in DOMAIN cache /\ now - timestamps[k] >= ttl) =>
                       /\ last'.ret = None
                       /\ k \notin DOMAIN cache'
                       /\ k \notin DOMAIN timestamps'
       /\ (last.op = "cache_set" /\ last'.op = "cache_get"
               /\ last'.key = last.key) =>
            last'.ret = Some(last.value)]_vars

\* an expired entry was looked up, missed and is gone; it is then stored anew
C13_Witness ==
    /\ last.op = "cache_get"
    /\ last.had
    /\ last.ret = None
    /\ last.key \notin DOMAIN cache
    /\ last.key \notin DOMAIN timestamps
    /\ now >= ttl

\* C14: read_sensor_safe goes to the bus exactly once when the key is absent
\* or expired and not at all on a hit, and a value it returns was produced by
\* the bus less than ttl ago.
C14_MissReadsOnce ==
    [][last'.op = "read_sensor_safe" =>
          LET k == last'.key
              hit == k \in DOMAIN cache /\ now - timestamps[k] < ttl
          IN  /\ ~hit => last'.reads = <<k>>
              /\ hit => last'.reads = <<>>
              /\ last'.ret # None => now - last'.ret[1].at < ttl]_vars

\* a read found its entry expired and went to the bus, which answered
C14_Witness ==
    /\ last.op = "read_sensor_safe"
    /\ last.reads = <<last.key>>
    /\ last.ret # None
    /\ now >= ttl
    /\ timestamps[last.key] = now
    /\ \E k \in DOMAIN cache : k # last.key /\ now - timestamps[k] = ttl - 1

\* the air-quality score of a pair of readings, as the sum of its two terms
ScoreOf(pm2_5, co2) ==
    (IF pm2_5 > 55 * FloatUnit THEN 2 ELSE IF pm2_5 > 35 * FloatUnit THEN 1 ELSE 0)
    + (IF co2 > 2000 * FloatUnit THEN 2 ELSE IF co2 > 1200 * FloatUnit THEN 1 ELSE 0)

LevelTexts == <<"Mukemmel", "Orta", "Dusuk kalite", "Kotu", "Sagliksiz">>

\* C19: classify_air_quality returns the table entry of the score
\* (2 if PM2.5 > 55 else 1 if PM2.5 > 35 else 0) + (2 if CO2 > 2000 else 1 if
\* CO2 > 1200 else 0), whose percentage is 25 times the score; the score is
\* in 0..4 and the fallback entry is never returned.
C19_AirQualityTable ==
    last.op = "classify_air_quality" =>
        LET score == ScoreOf(last.pm2_5, last.co2)
        IN  /\ score \in 0..4
            /\ last.ret = <<LevelTexts[score + 1], 25 * score>>
            /\ last.ret[1] # "Bilinmiyor"

\* PM2.5 = 60 and CO2 = 2100 classified as the worst level
C19_Witness ==
    /\ last.op = "classify_air_quality"
    /\ last.pm2_5 = 60 * FloatUnit
    /\ last.co2 = 2100 * FloatUnit
    /\ last.ret = <<"Sagliksiz", 100>>

\* the snapshot fields of each device step
DeviceFields ==
    [ldr |-> {"ldr_lux", "is_dark"},
     env |-> {"co2", "temperature", "humidity", "pm2_5", "pm10", "illumination",
              "air_quality", "air_quality_score", "weather_status"},
     mppt |-> {"pv_voltage", "pv_current", "pv_power", "mppt_status"},
     pir |-> {"motion_detected", "display_should_be_on"},
     bms |-> {"battery_voltage", "battery_current", "battery_power",
              "battery_soc", "battery_soh", "battery_temp", "discharge_time",
              "charge_time", "bms_low_power_mode"}]

\* the last call was a polling cycle whose client connected
Polled == last.op = "read_sensors" /\ last.connects

\* the read of block n returned a value to the last cycle
Succeeded(n) == last.rets[n] # None

\* C15: in a polling cycle every device step runs whatever the reads of the
\* other devices do (error response or exception), a device whose own reads
\* all succeed contributes all its fields, and the cycle runs to its end and
\* returns the snapshot it saved and logged.
C15_StepsIsolated ==
    Polled =>
        /\ DOMAIN last.rets = DOMAIN ReadKey
        /\ \A d \in DOMAIN DeviceReads :
               (\A n \in DeviceReads[d] : Succeeded(n)) =>
                   DeviceFields[d] \subseteq DOMAIN last.ret
        /\ last.completed
        /\ sensor_log # <<>>
        /\ sensor_log[Len(sensor_log)].data = last.ret

\* the LDR, the environmental sensor and the PIR raised; MPPT and BMS fields are
\* in the snapshot
C15_Witness ==
    /\ Polled
    /\ \A n \in DeviceReads.ldr \cup DeviceReads.env \cup DeviceReads.pir :
           last.kinds[n] = "raise" /\ ~Succeeded(n)
    /\ DeviceFields.mppt \cup DeviceFields.bms \subseteq DOMAIN last.ret
    /\ DOMAIN last.ret \cap (DeviceFields.ldr \cup DeviceFields.env) = {}
    /\ sensor_file = Some(last.ret)

\* the raw field each environmental block is decoded into
EnvField ==
    [co2 |-> "co2", temp |-> "temperature", hum |-> "humidity",
     pm25 |-> "pm2_5", pm10 |-> "pm10", illumination |-> "illumination"]

\* C16: when some but not all of the six environmental reads succeed, the
\* snapshot holds exactly the raw environmental fields whose read succeeded
\* and none of air_quality, air_quality_score, weather_status.
C16_EnvPartial ==
    (/\ Polled
     /\ \E n \in DeviceReads.env : Succeeded(n)
     /\ \E n \in DeviceReads.env : ~Succeeded(n)) =>
        /\ \A n \in DeviceReads.env :
               (EnvField[n] \in DOMAIN last.ret) <=> Succeeded(n)
        /\ DOMAIN last.ret
               \cap {"air_quality", "air_quality_score", "weather_status"} = {}

\* C17: weather_status is in the snapshot only if the LDR read succeeded in the
\* cycle, so that ldr_lux is in the snapshot too.
C17_WeatherNeedsLux ==
    (Polled /\ "weather_status" \in DOMAIN last.ret) =>
        Succeeded("r") /\ "ldr_lux" \in DOMAIN last.ret

\* the field each battery block is decoded into
BmsField ==
    [bv |-> "battery_voltage", bc |-> "battery_current", soc |-> "battery_soc",
     soh |-> "battery_soh", bt |-> "battery_temp", dt |-> "discharge_time",
     ct |-> "charge_time"]

\* C18: each of the seven battery fields is in the snapshot exactly when its
\* own read succeeded, and battery_power exactly when the voltage and the
\* current reads both did.
C18_BatteryFieldsIndependent ==
    Polled =>
        /\ \A n \in DeviceReads.bms :
               (BmsField[n] \in DOMAIN last.ret) <=> Succeeded(n)
        /\ ("battery_power" \in DOMAIN last.ret)
               <=> (Succeeded("bv") /\ Succeeded("bc"))

\* C20: the value under air_quality_score is the score, a value in 0..4.
C20_ScoreInRange ==
    (Polled /\ "air_quality_score" \in DOMAIN last.ret) =>
        last.ret["air_quality_score"] \in 0..4

\* C21: estimate_weather returns the class of the first rule that matches, in
\* the order sunny and hot (temp > 25, humidity < 50, lux > 20000), cold and
\* rainy (temp < 10, humidity > 70, lux < 10000), cool and partly cloudy
\* (10 <= temp <= 20, 50 <= humidity <= 70, 10000 <= lux <= 20000), mild and
\* humid (15 <= temp <= 25, humidity > 70, lux < 15000), else indeterminate.
C21_WeatherRules ==
    last.op = "estimate_weather" =>
        LET T == last.temp
            H == last.humidity
            L == last.lux
            U == FloatUnit
            rules ==
                <<T > 25 * U /\ H < 50 * U /\ L > 20000,
                  T < 10 * U /\ H > 70 * U /\ L < 10000,
                  10 * U <= T /\ T <= 20 * U /\ 50 * U <= H /\ H <= 70 * U
                      /\ 10000 <= L /\ L <= 20000,
                  15 * U <= T /\ T <= 25 * U /\ H > 70 * U /\ L < 15000,
                  TRUE>>
            classes ==
                <<"Gunesli ve sicak", "Soguk ve yagisli",
                  "Serin ve parcali bulutlu", "Ilik ve nemli",
                  "Kararsiz hava kosullari">>
            first == CHOOSE i \in 1..5 : rules[i] /\ \A j \in 1..(i - 1) : ~rules[j]
        IN  last.ret = classes[first]

\* 25 degrees, 71 per cent and 14999 lux are classified mild and humid
C21_Witness ==
    /\ last.op = "estimate_weather"
    /\ last.temp = 25 * FloatUnit
    /\ last.humidity = 71 * FloatUnit
    /\ last.lux = 14999
    /\ last.ret = "Ilik ve nemli"

\* C22: when the PIR read succeeds, motion_detected is true exactly when the
\* register word is not zero, and display_should_be_on equals motion_detected.
C22_MotionNonzero ==
    (Polled /\ Succeeded("pir")) =>
        /\ last.ret["motion_detected"] <=> (Word(last.rets["pir"]) # 0)
        /\ last.ret["display_should_be_on"] = last.ret["motion_detected"]

\* C23: the two words float_to_regs makes of a 32-bit pattern are 16-bit
\* words, read_float32_ieee754 does not take its error path on them, and the
\* float it decodes has the same 32 bits as the one encoded.
C23_RoundTrip ==
    last.op = "read_float32_ieee754" =>
        /\ \A i \in 1..2 : last.regs[i] \in 0..65535
        /\ ~last.raised
        /\ last.ret = last.bits

\* a negative NaN with all fraction bits set went through both words
C23_Witness ==
    /\ last.op = "read_float32_ieee754"
    /\ last.bits = [sign |-> 1, exponent |-> 255, fraction |-> 8388607]
    /\ last.regs = <<65535, 65535>>
    /\ ~last.raised

\* C24: a cycle whose client does not connect returns the empty snapshot,
\* issues no register read and leaves the active alarms, the alarm history,
\* the relays, the read cache and sensors.json as they were; the loop then
\* sleeps for the interval, and the next cycle can run.
C24_ConnectFailureFrame ==
    /\ [][(last'.op = "read_sensors" /\ ~last'.connects) =>
              /\ last'.ret = EmptyDict
              /\ last'.reads = <<>>
              /\ UNCHANGED <<active_alarms, alarm_history, relays, state,
                             cache, timestamps, sensor_file>>
              /\ now' = now + ConfigGet(config, "interval", interval_default)]_vars
    /\ []((last.op = "read_sensors" /\ ~last.connects /\ now < MaxPollClock)
              => ENABLED NextPoll)

\* the client did not connect in a cycle that followed one which raised
\* alarms, switched relays on, filled the cache and wrote sensors.json
C24_Witness ==
    /\ last.op = "read_sensors"
    /\ ~last.connects
    /\ active_alarms # <<>>
    /\ alarm_history # <<>>
    /\ \E name \in RelayNames : state[name]
    /\ cache # EmptyDict
    /\ sensor_file # None

\* C25: at most one polling cycle is in progress, at most one read is on the
\* bus, a read is issued only when no read is on the bus, and a cycle starts
\* only when the previous one has returned with its client closed.
C25_OneCycleOneRead ==
    /\ [](/\ reader.started - reader.finished <= 1
          /\ Cardinality(reader.in_flight) <= 1)
    /\ [][/\ reader'.in_flight # reader.in_flight /\ reader'.in_flight # {}
              => reader.in_flight = {}
          /\ reader'.started # reader.started
              => /\ reader.started = reader.finished
                 /\ ~reader.client_open
                 /\ reader.in_flight = {}]_vars

\* in the second cycle the read of the battery SOC is on the bus, after reads
\* that ended with registers and reads that timed out
C25_Witness ==
    /\ reader.started = 2
    /\ reader.finished = 1
    /\ reader.in_flight = {"soc"}
    /\ reader.bus["bv"].kind = "raise"
    /\ reader.client_open

\* C26: whenever no set_relay call is in progress, the recorded state of
\* every relay equals the value last written to its output device.
C26_StateMatchesOutput ==
    (\A t \in Threads : calls[t].pc = "idle") =>
        \A name \in relays : state[name] = outputs[name]

C28_PartialSnapshots ==
    [][/\ last'.op = "apply_logic" => ~last'.raised
       /\ last'.op = "check_alarms" =>
              /\ \A i \in 1..Len(last'.ret) :
                     last'.ret[i].sensor \in DOMAIN last'.data
              /\ last'.data = EmptyDict =>
                     /\ last'.ret = <<>>
                     /\ UNCHANGED <<active_alarms, alarm_history>>
    ]_vars

\* check_alarms saw the empty snapshot while five alarms were active
C28_Witness ==
    /\ last.op = "check_alarms"
    /\ last.data = EmptyDict
    /\ Len(active_alarms) = 5
    /\ Len(alarm_history) = 5

\* C29: the dashboard's active-alarm query returns the alarms that the poll
\* cycles put into the active set and that no clear request removed, and a
\* dashboard clear request removes the matching alarms from that set.
C29_DashboardSharesAlarms ==
    [][/\ last'.op = "api_active_alarms" =>
              last'.ret = get_active_alarms(active_alarms)
       /\ last'.op = "api_clear_alarms" =>
              active_alarms' = clear_alarms(active_alarms, last'.sensor)
    ]_vars

\* a check_alarms step with alarms enabled on a temperature below
\* temp_alarm_low
LowTemperatureStep ==
    /\ last'.op = "check_alarms"
    /\ ConfigGet(config, "alarm_enabled", TRUE)
    /\ Has(last'.data, "temperature")
    /\ last'.data["temperature"] < ConfigGet(config, "temp_alarm_low", temp_alarm_low_default)

TemperatureWarnings(active) ==
    {i \in 1..Len(active) :
        active[i].sensor = "temperature" /\ active[i].level = WARNING}

\* C30 as stated: after check_alarms on a temperature below temp_alarm_low the
\* active set holds a temperature alarm whose threshold is temp_alarm_low,
\* whatever was active before.
C30_LowAlarmActive ==
    [][LowTemperatureStep =>
           \E i \in 1..Len(active_alarms') :
               /\ active_alarms'[i].sensor = "temperature"
               /\ active_alarms'[i].threshold =
                      ConfigGet(config, "temp_alarm_low", temp_alarm_low_default)
    ]_vars

\* C30 as amended: after check_alarms on a temperature below temp_alarm_low
\* the active set holds exactly one temperature Warning; it is the one that
\* was active before the call, unchanged, if there was one (the new alarm then
\* goes to the history only); if there was none and the temperature is not
\* above temp_alarm_high, it is the new alarm, whose threshold is
\* temp_alarm_low.
C30_OneTemperatureWarning ==
    [][LowTemperatureStep =>
           LET before == TemperatureWarnings(active_alarms)
               after == TemperatureWarnings(active_alarms')
               temp == last'.data["temperature"]
               low == ConfigGet(config, "temp_alarm_low", temp_alarm_low_default)
               high == ConfigGet(config, "temp_alarm_high", temp_alarm_high_default)
           IN  /\ Cardinality(after) = 1
               /\ before # {} =>
                      /\ after = before
                      /\ \A i \in before : active_alarms'[i] = active_alarms[i]
                      /\ \E a \in Range(last'.ret) :
                             /\ a.sensor = "temperature" /\ a.value = temp
                             /\ a \in Range(alarm_history')
                             /\ a \notin Range(active_alarms')
               /\ (before = {} /\ temp <= high) =>
                      \A i \in after : /\ active_alarms'[i].threshold = low
                                       /\ active_alarms'[i].value = temp
    ]_vars

\* a low temperature was evaluated while the high-temperature Warning of an
\* earlier call was active: the Warning stayed, the low-temperature alarm is
\* in the history only
C30_Witness ==
    /\ last.op = "check_alarms"
    /\ last.data = S_low
    /\ Len(last.ret) = 1
    /\ last.ret[1].threshold = temp_alarm_low_default
    /\ \E i \in 1..Len(active_alarms) :
           /\ active_alarms[i].sensor = "temperature"
           /\ active_alarms[i].threshold = temp_alarm_high_default
    /\ alarm_history[Len(alarm_history)] = last.ret[1]
    /\ \A i \in 1..Len(active_alarms) : active_alarms[i] # last.ret[1]

\* C31: only clear_alarms removes or changes an active alarm: on every other
\* step the alarms that were active stay in place, unchanged; and
\* active_alarms never holds more than five alarms.
C31_ActiveLatched ==
    /\ [][last'.op # "clear_alarms" =>
              /\ Len(active_alarms') >= Len(active_alarms)
              /\ \A i \in 1..Len(active_alarms) :
                     active_alarms'[i] = active_alarms[i]]_vars
    /\ [](Len(active_alarms) <= 5)

\* five alarms are active after a call on a snapshot in which only the CO2
\* reading is still in breach: the temperature is back in range and the
\* other fields are absent
C31_Witness ==
    /\ last.op = "check_alarms"
    /\ last.data = S_co2
    /\ Len(last.ret) = 1
    /\ Len(active_alarms) = 5
    /\ \E i \in 1..5 : /\ active_alarms[i].sensor = "temperature"
                       /\ active_alarms[i].timestamp < now

BreachedSensors(data) ==
    LET breached(s) ==
            /\ Has(data, s)
            /\ CASE s = "temperature" -> data[s] > 3500 \/ data[s] < 500
                 [] s = "humidity" -> data[s] > 8500
                 [] s = "co2" -> data[s] > 200000
                 [] s = "battery_soc" -> data[s] < 20
                 [] s = "pm2_5" -> data[s] > 5500
    IN  SelectSeq(<<"temperature", "humidity", "co2", "battery_soc", "pm2_5">>,
                  breached)

\* C33: in a polling cycle the alarms check_alarms returns are the alarms it
\* appends to the history, one per breached rule in the order temperature,
\* humidity, co2, battery_soc, pm2_5, whether or not they were added to
\* active_alarms; if the MQTT client is connected each is handed to the alarm
\* publisher, in that order, before the snapshot is published, and if it is
\* not connected nothing is published.
C33_ReturnedAlarms ==
    [][(last'.op = "read_sensors" /\ last'.connects) =>
           LET ret == SubSeq(inserted', Len(inserted) + 1, Len(inserted'))
               topic == "nugateway/sensors"
           IN  /\ alarm_history' = alarm_history \o ret
               /\ [i \in 1..Len(ret) |-> ret[i].sensor] = BreachedSensors(last'.ret)
               /\ Len(ret) <= 5
               /\ published' =
                      IF mqtt_connected
                      THEN published
                           \o [i \in 1..Len(ret) |->
                                  [topic |-> topic \o "/alarms", payload |-> ret[i]]]
                           \o <<[topic |-> topic, payload |-> last'.ret]>>
                      ELSE published
    ]_vars

\* the second cycle of a persisting breach with the client connected: the
\* four alarms were returned and published again, none was added to
\* active_alarms, and the snapshot was published after them
C33_Witness ==
    /\ last.op = "read_sensors"
    /\ last.connects
    /\ mqtt_connected
    /\ Len(active_alarms) = 4
    /\ Len(alarm_history) = 8
    /\ Len(published) = 10
    /\ published[10].payload = last.ret
    /\ \A i \in 6..9 : published[i].payload = alarm_history[i - 1]

\* C34: a call of read_sensor_safe that returns no value went to the bus and
\* leaves no entry for its key in the cache, so that the next call for the key
\* goes to the bus again; the entry a call leaves for its key is the value it
\* returns; entries of other keys are untouched; and the value map and the
\* timestamp map of the cache always have the same keys.
C34_OnlySuccessCached ==
    /\ [](DOMAIN cache = DOMAIN timestamps)
    /\ [][last'.op = "read_sensor_safe" =>
              /\ last'.ret = None =>
                     /\ last'.reads = <<last'.key>>
                     /\ last'.key \notin DOMAIN cache'
              /\ last'.key \in DOMAIN cache' =>
                     last'.ret = Some(cache'[last'.key])
              /\ \A k \in CacheKeys \ {last'.key} :
                     /\ k \in DOMAIN cache' <=> k \in DOMAIN cache
                     /\ k \in DOMAIN cache =>
                            /\ cache'[k] = cache[k]
                            /\ timestamps'[k] = timestamps[k]
       ]_vars
    /\ [][(/\ last.op = "read_sensor_safe"
           /\ last.ret = None
           /\ last'.op \in {"read_sensor_safe", "tick"}
           /\ last'.op = "read_sensor_safe" => last'.key = last.key) =>
              /\ last.key \notin DOMAIN cache
              /\ last'.op = "read_sensor_safe" => last'.reads = <<last.key>>
       ]_vars

\* a failed read of one block while the other block is cached
C34_Witness ==
    /\ last.op = "read_sensor_safe"
    /\ last.ret = None
    /\ last.reads = <<last.key>>
    /\ DOMAIN cache = CacheKeys \ {last.key}
    /\ now > 0

\* C35: the reader that run_reader launches performs one polling pass and
\* exits, so that the iteration of run_reader that launched it goes on to its
\* sleep: no reader begins a second pass.
C35_OnePassPerLaunch == supervisor.passes <= 1

\* at most one reader process is alive, and the polling passes are those of
\* the reader run_reader is waiting for
C35_OneReaderAlive ==
    /\ supervisor.alive <= 1
    /\ supervisor.alive = 1 <=> supervisor.pc = "run" /\ last.op # "exit"

\* C36: a call of set_relay that returns False (the name is unknown, the
\* relay's device is missing or the device write raised) leaves the recorded
\* state of every relay unchanged; a call that returns True leaves
\* state[name] at the requested value and every other relay's state
\* unchanged.  So the state of a relay is OFF before any call and after that
\* the value of the last call for it that returned True.
C36_SetRelayAtomic ==
    /\ [](last.op = "init" => \A n \in DOMAIN state : ~state[n])
    /\ [][last'.op = "manual_control" =>
              IF last'.ret
              THEN /\ last'.name \in DOMAIN state
                   /\ state' = [state EXCEPT ![last'.name] = last'.value]
              ELSE state' = state
       ]_vars

\* a raising write of ON to the heater, which stays OFF while the fan, set ON
\* by an earlier call, stays ON
C36_Witness ==
    /\ last.op = "manual_control"
    /\ last.name = "heater"
    /\ last.value
    /\ ~last.ret
    /\ "heater" \in relays
    /\ ~state["heater"]
    /\ "fan" \in relays
    /\ state["fan"]
====
